---- MODULE Spec2Model ----
(***************************************************************************)
(* Model of the guarded alias execution core of mcp-shell-aliases:         *)
(* the alias catalog builder, the guarded executor, the audit logger and   *)
(* the alias.exec tool handler that ties them together.                    *)
(*                                                                         *)
(* Text is modelled as a sequence of characters, each character being a    *)
(* one-element TLA+ string; raw process output is a sequence of byte       *)
(* values; a path is a sequence of segments, each segment a text.          *)
(***************************************************************************)
EXTENDS Integers, Sequences, FiniteSets, TLC

(***************************************************************************)
(* Bounds of the model.                                                    *)
(***************************************************************************)
MaxCalls == 2
MaxDefaultTimeout == 1
MaxLimit == 2
MaxBytes == 3
MaxFrags == 3
MaxDefs == 3
MaxPatterns == 2
MaxNameLen == 2

\* Optional values (None of Python)
Nothing == [some |-> FALSE]
Some(v) == [some |-> TRUE, val |-> v]

(***************************************************************************)
(* Text helpers.                                                           *)
(***************************************************************************)
Whitespace == {" ", "\t", "\n"}
\* the grave accent character, which a TLA+ string cannot hold
Backtick == "U+0060"

RECURSIVE Flatten(_)
Flatten(ss) == IF ss = <<>> THEN <<>> ELSE Head(ss) \o Flatten(Tail(ss))

RECURSIVE JoinWith(_, _)
JoinWith(sep, ss) ==
    IF ss = <<>> THEN <<>>
    ELSE IF Len(ss) = 1 THEN Head(ss)
    ELSE Head(ss) \o sep \o JoinWith(sep, Tail(ss))

IsPrefixOf(p, s) == Len(p) <= Len(s) /\ SubSeq(s, 1, Len(p)) = p

Contains(s, w) ==
    \E i \in 1..(Len(s) - Len(w) + 1) : SubSeq(s, i, i + Len(w) - 1) = w

\* str.strip(): drop leading and trailing whitespace.
RECURSIVE LStrip(_)
LStrip(s) ==
    IF s # <<>> /\ Head(s) \in Whitespace THEN LStrip(Tail(s)) ELSE s

RECURSIVE RStrip(_)
RStrip(s) ==
    IF s # <<>> /\ s[Len(s)] \in Whitespace THEN RStrip(SubSeq(s, 1, Len(s) - 1)) ELSE s

Strip(s) == RStrip(LStrip(s))

(***************************************************************************)
(* The file system the server runs on: a home directory with a project     *)
(* directory in it, one symlink inside the home directory that leaves it,  *)
(* and one symlink outside that points into it.                            *)
(***************************************************************************)
segHome == <<"h">>
segProj == <<"p">>
segEtc == <<"e","t","c">>
segOut == <<"o","u","t">>
segIn == <<"i","n">>
segSecret == <<"s","e","c","r","e","t","s">>
segUp == <<".",".">>
segTilde == <<"~">>

HomeDir == <<segHome>>
ProcessCwd == <<segHome, segProj>>

\* symbolic links: canonical location of the link |-> absolute target
Symlinks ==
    (<<segHome, segOut>> :> <<segEtc>>) @@ (<<segIn>> :> <<segHome, segProj>>)

AbsPath(parts) == [abs |-> TRUE, parts |-> parts]
RelPath(parts) == [abs |-> FALSE, parts |-> parts]

\* Path.expanduser(): a leading "~" segment is replaced by the home directory.
expanduser(p) ==
    IF ~p.abs /\ p.parts # <<>> /\ Head(p.parts) = segTilde
    THEN AbsPath(HomeDir \o Tail(p.parts))
    ELSE p

\* Path.resolve(): make absolute, then walk the segments, undoing ".." and
\* following symbolic links.
RECURSIVE RealPath(_, _)
RealPath(done, rest) ==
    IF rest = <<>> THEN done
    ELSE LET s == Head(rest) IN
         IF s = segUp
         THEN RealPath(IF done = <<>> THEN <<>> ELSE SubSeq(done, 1, Len(done) - 1),
                       Tail(rest))
         ELSE IF Append(done, s) \in DOMAIN Symlinks
         THEN RealPath(<<>>, Symlinks[Append(done, s)] \o Tail(rest))
         ELSE RealPath(Append(done, s), Tail(rest))

resolve(p) ==
    AbsPath(RealPath(<<>>, IF p.abs THEN p.parts ELSE ProcessCwd \o p.parts))

\* str(path)
PathStr(p) ==
    IF p.abs
    THEN IF p.parts = <<>> THEN <<"/">>
         ELSE Flatten([i \in 1..Len(p.parts) |-> <<"/">> \o p.parts[i]])
    ELSE IF p.parts = <<>> THEN <<".">>
         ELSE JoinWith(<<"/">>, p.parts)

(***************************************************************************)
(* Guarded executor: working directory resolution.                         *)
(***************************************************************************)
_is_within_textual(path, root) == IsPrefixOf(PathStr(root), PathStr(path))

\* Path.relative_to succeeds iff the root's segments are a prefix of the path's
_is_within(path, root) ==
    path.abs = root.abs /\ IsPrefixOf(root.parts, path.parts)

_resolve_cwd_literal(requested, cfg) ==
    IF ~requested.some
    THEN [ok |-> TRUE, cwd |-> resolve(expanduser(cfg.default_cwd))]
    ELSE LET literal == expanduser(requested.val)
             allowed_roots == [i \in 1..Len(cfg.allow_cwd_roots) |->
                                 expanduser(cfg.allow_cwd_roots[i])]
         IN  IF \E i \in 1..Len(allowed_roots) : _is_within(literal, allowed_roots[i])
             THEN [ok |-> TRUE, cwd |-> resolve(literal)]
             ELSE [ok |-> FALSE, cwd |-> resolve(literal)]

\* a variant that holds the default directory to the allow-roots as well
_resolve_cwd_default_checked(requested, cfg) ==
    LET resolved == resolve(expanduser(IF requested.some THEN requested.val
                                       ELSE cfg.default_cwd))
        allowed_roots == [i \in 1..Len(cfg.allow_cwd_roots) |->
                            resolve(expanduser(cfg.allow_cwd_roots[i]))]
    IN  IF \E i \in 1..Len(allowed_roots) : _is_within(resolved, allowed_roots[i])
        THEN [ok |-> TRUE, cwd |-> resolved]
        ELSE [ok |-> FALSE, cwd |-> resolved]

_resolve_cwd(requested, cfg) ==
    IF ~requested.some
    THEN [ok |-> TRUE, cwd |-> resolve(expanduser(cfg.default_cwd))]
    ELSE LET resolved == resolve(expanduser(requested.val))
             allowed_roots == [i \in 1..Len(cfg.allow_cwd_roots) |->
                                 resolve(expanduser(cfg.allow_cwd_roots[i]))]
         IN  IF \E i \in 1..Len(allowed_roots) : _is_within(resolved, allowed_roots[i])
             THEN [ok |-> TRUE, cwd |-> resolved]
             ELSE [ok |-> FALSE, cwd |-> resolved]

(***************************************************************************)
(* Guarded executor: command assembly.  args is absent, a single text, or  *)
(* an ordered sequence of tokens.                                          *)
(***************************************************************************)
NoArgs == [kind |-> "none"]
StrArgs(text) == [kind |-> "str", text |-> text]
ListArgs(tokens) == [kind |-> "list", tokens |-> tokens]

RECURSIVE NonEmptyTokens(_)
NonEmptyTokens(ts) ==
    IF ts = <<>> THEN <<>>
    ELSE IF Head(ts) # <<>> THEN <<Head(ts)>> \o NonEmptyTokens(Tail(ts))
    ELSE NonEmptyTokens(Tail(ts))

_build_command_unstripped(expansion, args) ==
    IF args.kind = "none" THEN expansion
    ELSE IF args.kind = "str"
    THEN IF Strip(args.text) # <<>> THEN expansion \o <<" ">> \o args.text ELSE expansion
    ELSE LET arg_parts == NonEmptyTokens(args.tokens)
         IN  IF arg_parts # <<>>
             THEN expansion \o <<" ">> \o JoinWith(<<" ">>, args.tokens)
             ELSE expansion

_build_command(expansion, args) ==
    IF args.kind = "none" THEN expansion
    ELSE IF args.kind = "str"
    THEN LET arg_suffix == Strip(args.text)
         IN  IF arg_suffix # <<>> THEN expansion \o <<" ">> \o arg_suffix ELSE expansion
    ELSE LET arg_parts == NonEmptyTokens(args.tokens)
         IN  IF arg_parts # <<>>
             THEN expansion \o <<" ">> \o JoinWith(<<" ">>, arg_parts)
             ELSE expansion

(***************************************************************************)
(* Guarded executor: output decoding and truncation.                       *)
(* Bytes: 0x61 is ASCII "a", 0xC3 is the lead byte of a two-byte UTF-8     *)
(* sequence and 0xA9 a continuation byte (0xC3 0xA9 encodes U+00E9).       *)
(***************************************************************************)
ByteA == "0x61"
ByteLead == "0xC3"
ByteCont == "0xA9"
Bytes == {ByteA, ByteLead, ByteCont}
ReplacementChar == "U+FFFD"

\* bytes.decode("utf-8", errors="replace")
RECURSIVE Utf8DecodeReplace(_)
Utf8DecodeReplace(data) ==
    IF data = <<>> THEN <<>>
    ELSE IF Head(data) = ByteA THEN <<"a">> \o Utf8DecodeReplace(Tail(data))
    ELSE IF Head(data) = ByteLead /\ Len(data) >= 2 /\ data[2] = ByteCont
    THEN <<"U+00E9">> \o Utf8DecodeReplace(Tail(Tail(data)))
    ELSE <<ReplacementChar>> \o Utf8DecodeReplace(Tail(data))

\* data[:limit] of Python: a negative limit counts from the end.
SliceTo(data, limit) ==
    IF limit >= 0
    THEN SubSeq(data, 1, IF limit < Len(data) THEN limit ELSE Len(data))
    ELSE SubSeq(data, 1, IF Len(data) + limit > 0 THEN Len(data) + limit ELSE 0)

_decode_and_truncate_off_by_one(data, limit) ==
    IF Len(data) < limit
    THEN [text |-> Utf8DecodeReplace(data), truncated |-> FALSE]
    ELSE [text |-> Utf8DecodeReplace(SliceTo(data, limit)), truncated |-> TRUE]

_decode_and_truncate(data, limit) ==
    IF Len(data) <= limit
    THEN [text |-> Utf8DecodeReplace(data), truncated |-> FALSE]
    ELSE [text |-> Utf8DecodeReplace(SliceTo(data, limit)), truncated |-> TRUE]

(***************************************************************************)
(* Guarded executor: the environment of the spawned command.               *)
(* An environment is a function from variable names to values.             *)
(***************************************************************************)
FixedPath == "/usr/bin:/bin"
DefaultLocale == "C.UTF-8"
LocalePassThrough == <<"LC_CTYPE", "LC_NUMERIC", "LANGUAGE">>

EnvGet(env, key, default) == IF key \in DOMAIN env THEN env[key] ELSE default

_build_env_inherit(base_env, cfg, cwd) ==
    [k \in DOMAIN base_env \cup {"PATH", "LANG", "LC_ALL", "HOME", "PWD"} |->
        CASE k = "PATH" -> FixedPath
          [] k = "LANG" -> EnvGet(base_env, "LANG", DefaultLocale)
          [] k = "LC_ALL" -> EnvGet(base_env, "LC_ALL", DefaultLocale)
          [] k = "HOME" -> PathStr(expanduser(cfg.default_cwd))
          [] k = "PWD" -> PathStr(cwd)
          [] OTHER -> base_env[k]]

_build_env(base_env, cfg, cwd) ==
    LET passed == {LocalePassThrough[i] : i \in 1..Len(LocalePassThrough)}
                     \cap DOMAIN base_env
    IN  [k \in {"PATH", "LANG", "LC_ALL", "HOME", "PWD"} \cup passed |->
            CASE k = "PATH" -> FixedPath
              [] k = "LANG" -> EnvGet(base_env, "LANG", DefaultLocale)
              [] k = "LC_ALL" -> EnvGet(base_env, "LC_ALL", DefaultLocale)
              [] k = "HOME" -> PathStr(expanduser(cfg.default_cwd))
              [] k = "PWD" -> PathStr(cwd)
              [] OTHER -> base_env[k]]

(***************************************************************************)
(* Audit logger.                                                           *)
(***************************************************************************)
RedactionMarker == <<"<","r","e","d","a","c","t","e","d",">">>

kwToken == <<"t","o","k","e","n">>
kwSecret == <<"s","e","c","r","e","t">>
kwPassword == <<"p","a","s","s","w","o","r","d">>
\* the alternatives of _SECRET_PATTERN, in order
SecretKeywords == <<kwToken, kwSecret, kwPassword>>

UpperCase ==
    ("T" :> "t") @@ ("O" :> "o") @@ ("K" :> "k") @@ ("E" :> "e") @@ ("N" :> "n")
    @@ ("S" :> "s") @@ ("C" :> "c") @@ ("R" :> "r") @@ ("P" :> "p") @@ ("A" :> "a")
    @@ ("W" :> "w") @@ ("D" :> "d")

LowerChar(c) == IF c \in DOMAIN UpperCase THEN UpperCase[c] ELSE c
Lower(s) == [i \in 1..Len(s) |-> LowerChar(s[i])]

Drop(s, n) == SubSeq(s, n + 1, Len(s))

\* (?i)(token|secret|password) matched at the start of s: the length matched, or 0
KeywordAtCaseSensitive(s) ==
    IF \E i \in 1..Len(SecretKeywords) : IsPrefixOf(SecretKeywords[i], s)
    THEN Len(SecretKeywords[CHOOSE i \in 1..Len(SecretKeywords) :
                 /\ IsPrefixOf(SecretKeywords[i], s)
                 /\ \A j \in 1..(i - 1) : ~IsPrefixOf(SecretKeywords[j], s)])
    ELSE 0

KeywordAt(s) ==
    IF \E i \in 1..Len(SecretKeywords) : IsPrefixOf(SecretKeywords[i], Lower(s))
    THEN Len(SecretKeywords[CHOOSE i \in 1..Len(SecretKeywords) :
                 /\ IsPrefixOf(SecretKeywords[i], Lower(s))
                 /\ \A j \in 1..(i - 1) : ~IsPrefixOf(SecretKeywords[j], Lower(s))])
    ELSE 0

\* [^\s]* at the start of s: the length of the greedy match
RECURSIVE NonSpaceRun(_)
NonSpaceRun(s) ==
    IF s = <<>> \/ Head(s) \in Whitespace THEN 0 ELSE 1 + NonSpaceRun(Tail(s))

\* _SECRET_PATTERN.sub("<redacted>", value): leftmost non-overlapping matches
RECURSIVE SecretSubKeywordOnly(_)
SecretSubKeywordOnly(s) ==
    IF s = <<>> THEN <<>>
    ELSE IF KeywordAt(s) > 0
    THEN RedactionMarker \o SecretSubKeywordOnly(Drop(s, KeywordAt(s)))
    ELSE <<Head(s)>> \o SecretSubKeywordOnly(Tail(s))

RECURSIVE SecretSub(_)
SecretSub(s) ==
    IF s = <<>> THEN <<>>
    ELSE IF KeywordAt(s) > 0
    THEN LET rest == Drop(s, KeywordAt(s))
         IN  RedactionMarker \o SecretSub(Drop(rest, NonSpaceRun(rest)))
    ELSE <<Head(s)>> \o SecretSub(Tail(s))

\* the fields of an audit entry that hold text
AuditTextFields == {"timestamp", "alias", "args", "cwd", "command"}
AuditFieldOrder ==
    <<"timestamp", "alias", "safe", "args", "cwd", "command",
      "exitCode", "timedOut", "dryRun">>

_redact(entry) ==
    [k \in DOMAIN entry |->
        IF k \in AuditTextFields THEN SecretSub(entry[k]) ELSE entry[k]]

_format_args(args) ==
    IF args.kind = "none" THEN <<>>
    ELSE IF args.kind = "str" THEN args.text
    ELSE JoinWith(<<" ">>, args.tokens)

\* decimal rendering of an integer
DigitChars == <<"0","1","2","3","4","5","6","7","8","9">>
RECURSIVE NatStr(_)
NatStr(n) ==
    IF n < 10 THEN <<DigitChars[n + 1]>>
    ELSE NatStr(n \div 10) \o <<DigitChars[(n % 10) + 1]>>
IntStr(n) == IF n < 0 THEN <<"-">> \o NatStr(0 - n) ELSE NatStr(n)

\* json.dumps of a text: quotes, backslashes and control characters escaped
JsonChar(c) ==
    CASE c = "\"" -> <<"\\", "\"">>
      [] c = "\\" -> <<"\\", "\\">>
      [] c = "\t" -> <<"\\", "t">>
      [] c = "\n" -> <<"\\", "n">>
      [] OTHER -> <<c>>
JsonString(s) ==
    <<"\"">> \o Flatten([i \in 1..Len(s) |-> JsonChar(s[i])]) \o <<"\"">>
JsonBool(b) == IF b THEN <<"t","r","u","e">> ELSE <<"f","a","l","s","e">>
JsonOptInt(v) == IF v.some THEN IntStr(v.val) ELSE <<"n","u","l","l">>

JsonValue(entry, k) ==
    CASE k \in AuditTextFields -> JsonString(entry[k])
      [] k = "exitCode" -> JsonOptInt(entry[k])
      [] OTHER -> JsonBool(entry[k])

KeyText ==
    [timestamp |-> <<"t","i","m","e","s","t","a","m","p">>,
     alias |-> <<"a","l","i","a","s">>,
     safe |-> <<"s","a","f","e">>,
     args |-> <<"a","r","g","s">>,
     cwd |-> <<"c","w","d">>,
     command |-> <<"c","o","m","m","a","n","d">>,
     exitCode |-> <<"e","x","i","t","C","o","d","e">>,
     timedOut |-> <<"t","i","m","e","d","O","u","t">>,
     dryRun |-> <<"d","r","y","R","u","n">>]

\* json.dumps(entry, separators=(",", ":")) keeps the insertion order of the keys
JsonDumps(entry) ==
    <<"{">>
    \o JoinWith(<<",">>,
          [i \in 1..Len(AuditFieldOrder) |->
              JsonString(KeyText[AuditFieldOrder[i]]) \o <<":">>
              \o JsonValue(entry, AuditFieldOrder[i])])
    \o <<"}">>

(***************************************************************************)
(* Pattern classifier.  A pattern is one of the two regular-expression     *)
(* shapes the configurations use: "^word" (anchored) and "word" (found     *)
(* anywhere); search() is modelled for these shapes.                       *)
(***************************************************************************)
Anchored(word) == [anchored |-> TRUE, word |-> word]
Anywhere(word) == [anchored |-> FALSE, word |-> word]

\* pattern.search(expansion)
Search(pattern, expansion) ==
    IF pattern.anchored THEN IsPrefixOf(pattern.word, expansion)
    ELSE Contains(expansion, pattern.word)

AnyMatch(patterns, expansion) ==
    \E i \in 1..Len(patterns) : Search(patterns[i], expansion)

\* a variant that looks at the allow list before the deny list
is_safe_allow_first(classifier, expansion) ==
    IF AnyMatch(classifier.allow_patterns, expansion) THEN TRUE
    ELSE IF classifier.deny_patterns = <<>> THEN FALSE
    ELSE ~AnyMatch(classifier.deny_patterns, expansion)

\* a variant that consults the first allow pattern only
is_safe_first_allow_only(classifier, expansion) ==
    IF AnyMatch(classifier.deny_patterns, expansion) THEN FALSE
    ELSE IF classifier.allow_patterns = <<>> THEN FALSE
    ELSE Search(classifier.allow_patterns[1], expansion)

is_safe(classifier, expansion) ==
    IF AnyMatch(classifier.deny_patterns, expansion) THEN FALSE
    ELSE IF classifier.allow_patterns = <<>> THEN FALSE
    ELSE AnyMatch(classifier.allow_patterns, expansion)

(***************************************************************************)
(* Alias catalog builder.                                                  *)
(***************************************************************************)
VARIABLES
    aliasFiles,     \* the alias files on disk: file |-> [exists, lines]
    hostCommands    \* the commands shutil.which resolves on the host

LowerLetters ==
    {"a","b","c","d","e","f","g","h","i","j","k","l","m",
     "n","o","p","q","r","s","t","u","v","w","x","y","z"}
Digits == {"0","1","2","3","4","5","6","7","8","9"}
\* [A-Za-z0-9_\-]
NameChars == LowerLetters \cup DOMAIN UpperCase \cup Digits \cup {"_", "-"}
QuoteChars == {"'", "\""}

RECURSIVE RunOf(_, _)
RunOf(s, class) ==
    IF s = <<>> \/ Head(s) \notin class THEN 0 ELSE 1 + RunOf(Tail(s), class)

kwAlias == <<"a","l","i","a","s">>

\* ALIAS_REGEX.match(stripped): the groups of the match, or no match
AliasRegexMatch(stripped) ==
    LET afterKw == Drop(stripped, Len(kwAlias))
        ws == RunOf(afterKw, Whitespace)
        afterWs == Drop(afterKw, ws)
        n == RunOf(afterWs, NameChars)
        afterName == Drop(afterWs, n)
        body == Drop(afterName, 2)
    IN  IF /\ IsPrefixOf(kwAlias, stripped)
           /\ ws >= 1
           /\ n >= 1
           /\ Len(afterName) >= 3
           /\ afterName[1] = "="
           /\ afterName[2] \in QuoteChars
           /\ body[Len(body)] = afterName[2]
        THEN [matched |-> TRUE,
              name |-> SubSeq(afterWs, 1, n),
              quote |-> afterName[2],
              expansion |-> SubSeq(body, 1, Len(body) - 1)]
        ELSE [matched |-> FALSE]

\* str.replace(<<"\\", q>>, <<q>>)
RECURSIVE ReplaceEscaped(_, _)
ReplaceEscaped(s, q) ==
    IF s = <<>> THEN <<>>
    ELSE IF Len(s) >= 2 /\ s[1] = "\\" /\ s[2] = q
    THEN <<q>> \o ReplaceEscaped(Drop(s, 2), q)
    ELSE <<Head(s)>> \o ReplaceEscaped(Tail(s), q)

\* a variant that undoes the escapes of both quotes whatever the quote is
_unescape_both_quotes(expansion, quote) ==
    ReplaceEscaped(ReplaceEscaped(expansion, "'"), "\"")

_unescape(expansion, quote) ==
    IF quote \in QuoteChars THEN ReplaceEscaped(expansion, quote) ELSE expansion

\* re.search(r"[\s!$`\\-]", name)
InvalidNameChars == Whitespace \cup {"!", "$", Backtick, "\\", "-"}
\* a variant whose character class has no hyphen
_is_invalid_name_hyphen_allowed(name) ==
    \E i \in 1..Len(name) : name[i] \in (InvalidNameChars \ {"-"})

_is_invalid_name(name) == \E i \in 1..Len(name) : name[i] \in InvalidNameChars

Alias(name, expansion, safe, source_file) ==
    [name |-> name, expansion |-> expansion, safe |-> safe, source_file |-> source_file]

\* one line of an alias file: the Alias it defines, if any
ParseLine(line, path, classifier) ==
    LET stripped == Strip(line)
        m == AliasRegexMatch(stripped)
    IN  IF stripped = <<>> \/ Head(stripped) = "#" THEN <<>>
        ELSE IF ~m.matched THEN <<>>
        ELSE IF _is_invalid_name(m.name) THEN <<>>
        ELSE LET expansion == _unescape(m.expansion, m.quote)
             IN  <<Alias(m.name, expansion, is_safe(classifier, expansion), path)>>

\* a variant that gives up on the file at the first line that defines nothing
_parse_file_stop_at_bad_line(path, classifier) ==
    IF ~aliasFiles[path].exists THEN <<>>
    ELSE LET lines == aliasFiles[path].lines
             bad == {i \in 1..Len(lines) : ParseLine(lines[i], path, classifier) = <<>>}
             upto == IF bad = {} THEN Len(lines)
                     ELSE (CHOOSE i \in bad : \A j \in bad : i <= j) - 1
         IN  Flatten([i \in 1..upto |-> ParseLine(lines[i], path, classifier)])

_parse_file(path, classifier) ==
    IF ~aliasFiles[path].exists THEN <<>>
    ELSE Flatten([i \in 1..Len(aliasFiles[path].lines) |->
                    ParseLine(aliasFiles[path].lines[i], path, classifier)])

(***************************************************************************)
(* shlex.split(expansion, posix=True): quote-aware tokenization.           *)
(* state: "ws" between tokens, "a" in a word, a quote character inside     *)
(* quotes, "esc" after a backslash (back is the state to return to).       *)
(***************************************************************************)
RECURSIVE ShlexScan(_, _, _, _, _)
ShlexScan(rest, state, back, tok, toks) ==
    IF rest = <<>>
    THEN IF state \in QuoteChars \/ state = "esc" THEN [ok |-> FALSE, tokens |-> <<>>]
         ELSE IF state = "a" THEN [ok |-> TRUE, tokens |-> Append(toks, tok)]
         ELSE [ok |-> TRUE, tokens |-> toks]
    ELSE LET c == Head(rest)
             r == Tail(rest)
         IN  CASE state = "ws" ->
                    IF c \in Whitespace THEN ShlexScan(r, "ws", back, <<>>, toks)
                    ELSE IF c = "\\" THEN ShlexScan(r, "esc", "a", <<>>, toks)
                    ELSE IF c \in QuoteChars THEN ShlexScan(r, c, back, <<>>, toks)
                    ELSE ShlexScan(r, "a", back, <<c>>, toks)
               [] state = "a" ->
                    IF c \in Whitespace THEN ShlexScan(r, "ws", back, <<>>, Append(toks, tok))
                    ELSE IF c = "\\" THEN ShlexScan(r, "esc", "a", tok, toks)
                    ELSE IF c \in QuoteChars THEN ShlexScan(r, c, back, tok, toks)
                    ELSE ShlexScan(r, "a", back, Append(tok, c), toks)
               [] state = "esc" ->
                    IF back \in QuoteChars /\ c # "\\" /\ c # back
                    THEN ShlexScan(r, back, back, tok \o <<"\\", c>>, toks)
                    ELSE ShlexScan(r, back, back, Append(tok, c), toks)
               [] OTHER ->   \* inside quotes
                    IF c = state THEN ShlexScan(r, "a", back, tok, toks)
                    ELSE IF c = "\\" /\ state = "\""
                    THEN ShlexScan(r, "esc", state, tok, toks)
                    ELSE ShlexScan(r, state, back, Append(tok, c), toks)

ShlexSplit(s) == ShlexScan(s, "ws", "a", <<>>, <<>>)

\* the head token, or Nothing when there is none or the text cannot be tokenized
_head_command(expansion) ==
    LET parts == ShlexSplit(expansion)
    IN  IF ~parts.ok THEN Nothing
        ELSE IF parts.tokens = <<>> THEN Nothing
        ELSE Some(parts.tokens[1])

cmdEcho == <<"e","c","h","o">>
cmdLs == <<"l","s">>
cmdGls == <<"g","l","s">>
cmdRm == <<"r","m">>
cmdFoo == <<"f","o","o">>

_BUILTIN_OK ==
    {cmdEcho, <<"p","r","i","n","t","f">>, <<"s","o","u","r","c","e">>, <<".">>,
     <<"t","e","s","t">>, <<"t","r","u","e">>, <<"f","a","l","s","e">>}

_is_command_available(cmd) ==
    IF ~cmd.some \/ cmd.val = <<>> THEN FALSE
    ELSE IF cmd.val \in _BUILTIN_OK THEN TRUE
    ELSE cmd.val \in hostCommands

_can_override_always(existing, candidate) == TRUE

_can_override_available_only(existing, candidate) ==
    _is_command_available(_head_command(candidate.expansion))

\* a variant that keeps an existing alias whose head command is available
_can_override_keep_available(existing, candidate) ==
    ~_is_command_available(_head_command(existing.expansion))

_can_override(existing, candidate) ==
    LET cand_cmd == _head_command(candidate.expansion)
        exist_cmd == _head_command(existing.expansion)
        cand_ok == _is_command_available(cand_cmd)
    IN  IF cand_ok THEN TRUE
        ELSE LET exist_ok == _is_command_available(exist_cmd)
             IN  ~exist_ok

(***************************************************************************)
(* A catalog is the insertion-ordered dict of build_catalog: a sequence of *)
(* Alias records with pairwise different names.                            *)
(***************************************************************************)
CatalogIndex(aliases, name) ==
    IF \E i \in 1..Len(aliases) : aliases[i].name = name
    THEN CHOOSE i \in 1..Len(aliases) : aliases[i].name = name
    ELSE 0

\* AliasCatalog.get(name)
CatalogGet(aliases, name) ==
    IF CatalogIndex(aliases, name) = 0 THEN Nothing
    ELSE Some(aliases[CatalogIndex(aliases, name)])

\* the loop body of build_catalog for one parsed alias
AddAlias(aliases, alias) ==
    LET i == CatalogIndex(aliases, alias.name)
    IN  IF i = 0 THEN Append(aliases, alias)
        ELSE IF _can_override(aliases[i], alias)
        THEN [aliases EXCEPT ![i] = alias]
        ELSE aliases

RECURSIVE AddAll(_, _)
AddAll(aliases, parsed) ==
    IF parsed = <<>> THEN aliases
    ELSE AddAll(AddAlias(aliases, Head(parsed)), Tail(parsed))

\* mcp_shell_aliases.aliases.build_catalog
RECURSIVE BuildFrom(_, _, _)
BuildFrom(aliases, alias_files, classifier) ==
    IF alias_files = <<>> THEN aliases
    ELSE BuildFrom(AddAll(aliases, _parse_file(Head(alias_files), classifier)),
                   Tail(alias_files), classifier)

build_catalog(alias_files, classifier) == BuildFrom(<<>>, alias_files, classifier)

\* mcp_bash_aliases.aliases.build_catalog: the last definition of a name wins
AddAliasLastWins(aliases, alias) ==
    LET i == CatalogIndex(aliases, alias.name)
    IN  IF i = 0 THEN Append(aliases, alias)
        ELSE [aliases EXCEPT ![i] = alias]

RECURSIVE AddAllLastWins(_, _)
AddAllLastWins(aliases, parsed) ==
    IF parsed = <<>> THEN aliases
    ELSE AddAllLastWins(AddAliasLastWins(aliases, Head(parsed)), Tail(parsed))

RECURSIVE BuildFromLastWins(_, _, _)
BuildFromLastWins(aliases, alias_files, classifier) ==
    IF alias_files = <<>> THEN aliases
    ELSE BuildFromLastWins(
             AddAllLastWins(aliases, _parse_file(Head(alias_files), classifier)),
             Tail(alias_files), classifier)

build_catalog_last_wins(alias_files, classifier) ==
    BuildFromLastWins(<<>>, alias_files, classifier)

(***************************************************************************)
(* The server: AliasRuntime and the alias.exec tool.                       *)
(***************************************************************************)
VARIABLES
    config,         \* runtime.config
    classifier,     \* runtime.classifier
    catalog,        \* runtime.catalog
    environ,        \* os.environ of the server process
    calls,          \* the alias.exec / execute_alias calls, by task
    auditLog,       \* the lines of the audit file
    auditTrail,     \* history: for each line, the call and the unredacted entry
    clock           \* wall clock, read for the timestamp of an entry

vars == <<aliasFiles, hostCommands, config, classifier, catalog, environ,
          calls, auditLog, auditTrail, clock>>

Tasks == {1, 2}

\* SafetyClassifier.from_strings
from_strings(allow_patterns, deny_patterns) ==
    [allow_patterns |-> allow_patterns, deny_patterns |-> deny_patterns]

\* AliasRuntime.refresh: the catalog after the call
refresh_always(cfg, cat) ==
    build_catalog_last_wins(cfg.alias_files, classifier)

\* a variant that adds the aliases it parses to the ones it already has
refresh_appending(cfg, cat) ==
    IF ~cfg.enable_hot_reload THEN cat
    ELSE cat \o build_catalog_last_wins(cfg.alias_files, classifier)

refresh(cfg, cat) ==
    IF ~cfg.enable_hot_reload THEN cat
    ELSE build_catalog_last_wins(cfg.alias_files, classifier)

ExecutionResult(command, cwd, exit_code, stdout, stderr, truncated_stdout, truncated_stderr, timed_out, dry_run) ==
    [command |-> command, cwd |-> cwd, exit_code |-> exit_code,
     stdout |-> stdout, stderr |-> stderr,
     truncated_stdout |-> truncated_stdout, truncated_stderr |-> truncated_stderr,
     timed_out |-> timed_out, dry_run |-> dry_run]

txtDryRun1 ==
    <<"D","r","y"," ","r","u","n",":"," ","w","o","u","l","d"," ",
      "e","x","e","c","u","t","e"," ", Backtick>>
txtDryRun2 == <<Backtick, " ", "i", "n", " ">>

\* execute_alias, dry_run branch
DryRunResultAsReal(command, cwd) ==
    ExecutionResult(command, cwd, Some(0),
                    txtDryRun1 \o command \o txtDryRun2 \o PathStr(cwd),
                    <<>>, FALSE, FALSE, FALSE, FALSE)

DryRunResult(command, cwd) ==
    ExecutionResult(command, cwd, Nothing,
                    txtDryRun1 \o command \o txtDryRun2 \o PathStr(cwd),
                    <<>>, FALSE, FALSE, FALSE, TRUE)

\* timeout_override or config.execution.default_timeout_seconds
EffectiveTimeout(timeout_override, cfg) ==
    IF timeout_override.some /\ timeout_override.val # 0
    THEN timeout_override.val
    ELSE cfg.execution.default_timeout_seconds

\* execute_alias, after communicate() has returned
RealResultSharedLimit(command, cwd, cfg, stdout_bytes, stderr_bytes, timed_out, returncode) ==
    LET out == _decode_and_truncate(stdout_bytes, cfg.execution.max_stdout_bytes)
        err == _decode_and_truncate(stderr_bytes, cfg.execution.max_stdout_bytes)
    IN  ExecutionResult(command, cwd, IF timed_out THEN Nothing ELSE Some(returncode),
                        out.text, err.text, out.truncated, err.truncated,
                        timed_out, FALSE)

RealResultKeepCode(command, cwd, cfg, stdout_bytes, stderr_bytes, timed_out, returncode) ==
    LET out == _decode_and_truncate(stdout_bytes, cfg.execution.max_stdout_bytes)
        err == _decode_and_truncate(stderr_bytes, cfg.execution.max_stderr_bytes)
    IN  ExecutionResult(command, cwd, Some(returncode),
                        out.text, err.text, out.truncated, err.truncated,
                        timed_out, FALSE)

RealResult(command, cwd, cfg, stdout_bytes, stderr_bytes, timed_out, returncode) ==
    LET out == _decode_and_truncate(stdout_bytes, cfg.execution.max_stdout_bytes)
        err == _decode_and_truncate(stderr_bytes, cfg.execution.max_stderr_bytes)
    IN  ExecutionResult(command, cwd, IF timed_out THEN Nothing ELSE Some(returncode),
                        out.text, err.text, out.truncated, err.truncated,
                        timed_out, FALSE)

\* write_audit_log: the entry before redaction
AuditEntry(alias, args, cwd, result, now) ==
    [timestamp |-> IntStr(now),
     alias |-> alias.name,
     safe |-> alias.safe,
     args |-> _format_args(args),
     cwd |-> PathStr(cwd),
     command |-> result.command,
     exitCode |-> result.exit_code,
     timedOut |-> result.timed_out,
     dryRun |-> result.dry_run]

\* write_audit_log: the line appended to the file
AuditLineUnredacted(alias, args, cwd, result, now) ==
    JsonDumps(AuditEntry(alias, args, cwd, result, now))

AuditLine(alias, args, cwd, result, now) ==
    JsonDumps(_redact(AuditEntry(alias, args, cwd, result, now)))

(***************************************************************************)
(* One alias.exec call.  pc is the await the coroutine is suspended at:    *)
(*   "spawning"  in create_subprocess_exec                                 *)
(*   "running"   in wait_for(process.communicate(), timeout)               *)
(*   "draining"  in process.communicate() after process.kill()             *)
(*   "done"      returned or raised; "idle" before the first call.         *)
(***************************************************************************)
Request(name, args, dry_run, confirm, cwd, timeout_seconds) ==
    [name |-> name, args |-> args, dry_run |-> dry_run, confirm |-> confirm,
     cwd |-> cwd, timeout_seconds |-> timeout_seconds]

NoOutcome == [kind |-> "none"]
Raised(type, reason) == [kind |-> "error", type |-> type, reason |-> reason]
Returned(payload) == [kind |-> "payload", payload |-> payload]
\* the answer of list_aliases: catalog.all()
Listed(aliases) == [kind |-> "aliases", aliases |-> aliases]

IdleCall ==
    [pc |-> "idle",
     req |-> Request(<<>>, NoArgs, TRUE, FALSE, Nothing, Nothing),
     alias |-> Nothing,          \* the Alias returned by runtime.get_alias
     args |-> NoArgs,            \* normalized_args
     command |-> <<>>,
     cwd |-> Nothing,            \* the resolved working directory
     timeout |-> Nothing,        \* timeout_seconds of execute_alias
     env |-> Nothing,            \* the environment passed to the process
     spawned |-> FALSE,          \* a subprocess was created for this call
     killed |-> FALSE,           \* process.kill() was called
     base_env |-> Nothing,       \* os.environ as read by execute_alias
     duration |-> 0,             \* how long the process needs to finish
     stdout_bytes |-> <<>>,      \* what communicate() returned
     stderr_bytes |-> <<>>,
     returncode |-> Nothing,     \* process.returncode
     result |-> Nothing,         \* the ExecutionResult of execute_alias
     logged |-> 0,               \* audit lines appended by this call
     building |-> <<>>,          \* the local dict of a build_catalog in progress
     pending |-> <<>>,           \* the alias files build_catalog has yet to parse
     seen |-> Nothing,           \* the catalog a list_aliases call read
     held |-> FALSE,             \* seen is still the object the runtime refers to
     outcome |-> NoOutcome]

\* ExecutionResult.to_payload plus the two alias fields added by alias_exec
Payload(result, alias) ==
    [command |-> result.command,
     cwd |-> PathStr(result.cwd),
     exitCode |-> result.exit_code,
     stdout |-> result.stdout,
     stderr |-> result.stderr,
     truncated |-> [stdout |-> result.truncated_stdout,
                    stderr |-> result.truncated_stderr],
     timedOut |-> result.timed_out,
     dryRun |-> result.dry_run,
     aliasSafe |-> alias.safe,
     sourceFile |-> alias.source_file]

Fail(c, type, reason) == [c EXCEPT !.pc = "done", !.outcome = Raised(type, reason)]

\* max(default_timeout_seconds, 1) * 5
MaxTimeoutFiveTimesDefault(cfg) == cfg.execution.default_timeout_seconds * 5

MaxTimeout(cfg) ==
    (IF cfg.execution.default_timeout_seconds > 1
     THEN cfg.execution.default_timeout_seconds ELSE 1) * 5

\* normalized_args = args.strip() if args and args.strip() else None
NormalizeArgs(args) ==
    IF args.kind = "str" /\ Strip(args.text) # <<>> THEN StrArgs(Strip(args.text))
    ELSE NoArgs

\* execute_alias up to its first await: raises CwdNotAllowedError, returns the
\* dry-run result, or suspends in create_subprocess_exec
execute_alias_spawn_first(c, alias, args, cfg, dry_run, requested_cwd, timeout_override) ==
    LET command == _build_command(alias.expansion, args)
        rc == _resolve_cwd(requested_cwd, cfg)
        c1 == [c EXCEPT !.command = command, !.cwd = Some(rc.cwd)]
    IN  IF dry_run /\ ~rc.ok THEN Fail(c1, "CwdNotAllowedError", PathStr(rc.cwd))
        ELSE IF dry_run
        THEN [c1 EXCEPT !.pc = "result", !.result = Some(DryRunResult(command, rc.cwd))]
        ELSE [c1 EXCEPT !.pc = "spawning",
                        !.base_env = Some(environ),
                        !.env = Some(_build_env(environ, cfg, rc.cwd)),
                        !.timeout = Some(EffectiveTimeout(timeout_override, cfg))]

execute_alias(c, alias, args, cfg, dry_run, requested_cwd, timeout_override) ==
    LET command == _build_command(alias.expansion, args)
        rc == _resolve_cwd(requested_cwd, cfg)
        c1 == [c EXCEPT !.command = command, !.cwd = Some(rc.cwd)]
    IN  IF ~rc.ok THEN Fail(c1, "CwdNotAllowedError", PathStr(rc.cwd))
        ELSE IF dry_run
        THEN [c1 EXCEPT !.pc = "result", !.result = Some(DryRunResult(command, rc.cwd))]
        ELSE [c1 EXCEPT !.pc = "spawning",
                        !.base_env = Some(environ),
                        !.env = Some(_build_env(environ, cfg, rc.cwd)),
                        !.timeout = Some(EffectiveTimeout(timeout_override, cfg))]

\* alias_exec from the catalog lookup to the first await of execute_alias;
\* cat is the catalog get_alias reads after its refresh
alias_exec_no_confirm(req, cat, cfg) ==
    LET c == [IdleCall EXCEPT !.req = req]
        found == CatalogGet(cat, req.name)
    IN  IF ~found.some THEN Fail(c, "ToolError", "AliasNotFoundError")
        ELSE LET alias == found.val
                 c1 == [c EXCEPT !.alias = Some(alias),
                                 !.args = NormalizeArgs(req.args)]
             IN  IF ~alias.safe /\ ~req.dry_run
                 THEN Fail(c1, "ToolError", "not marked safe")
                 ELSE IF req.timeout_seconds.some /\ req.timeout_seconds.val <= 0
                 THEN Fail(c1, "ToolError", "timeout must be positive")
                 ELSE IF req.timeout_seconds.some
                         /\ req.timeout_seconds.val > MaxTimeout(cfg)
                 THEN Fail(c1, "ToolError", "timeout exceeds maximum")
                 ELSE LET r == execute_alias(c1, alias, c1.args, cfg, req.dry_run,
                                              req.cwd, req.timeout_seconds)
                      IN  IF r.outcome.kind = "error"
                          THEN Fail(r, "ToolError", "CwdNotAllowedError")
                          ELSE r

alias_exec_unsafe_allowed(req, cat, cfg) ==
    LET c == [IdleCall EXCEPT !.req = req]
        found == CatalogGet(cat, req.name)
    IN  IF ~req.dry_run /\ ~req.confirm THEN Fail(c, "ToolError", "confirm required")
        ELSE IF ~found.some THEN Fail(c, "ToolError", "AliasNotFoundError")
        ELSE LET alias == found.val
                 c1 == [c EXCEPT !.alias = Some(alias),
                                 !.args = NormalizeArgs(req.args)]
             IN  IF req.timeout_seconds.some /\ req.timeout_seconds.val <= 0
                 THEN Fail(c1, "ToolError", "timeout must be positive")
                 ELSE IF req.timeout_seconds.some
                         /\ req.timeout_seconds.val > MaxTimeout(cfg)
                 THEN Fail(c1, "ToolError", "timeout exceeds maximum")
                 ELSE LET r == execute_alias(c1, alias, c1.args, cfg, req.dry_run,
                                              req.cwd, req.timeout_seconds)
                      IN  IF r.outcome.kind = "error"
                          THEN Fail(r, "ToolError", "CwdNotAllowedError")
                          ELSE r

alias_exec(req, cat, cfg) ==
    LET c == [IdleCall EXCEPT !.req = req]
        found == CatalogGet(cat, req.name)
    IN  IF ~req.dry_run /\ ~req.confirm THEN Fail(c, "ToolError", "confirm required")
        ELSE IF ~found.some THEN Fail(c, "ToolError", "AliasNotFoundError")
        ELSE LET alias == found.val
                 c1 == [c EXCEPT !.alias = Some(alias),
                                 !.args = NormalizeArgs(req.args)]
             IN  IF ~alias.safe /\ ~req.dry_run
                 THEN Fail(c1, "ToolError", "not marked safe")
                 ELSE IF req.timeout_seconds.some /\ req.timeout_seconds.val <= 0
                 THEN Fail(c1, "ToolError", "timeout must be positive")
                 ELSE IF req.timeout_seconds.some
                         /\ req.timeout_seconds.val > MaxTimeout(cfg)
                 THEN Fail(c1, "ToolError", "timeout exceeds maximum")
                 ELSE LET r == execute_alias(c1, alias, c1.args, cfg, req.dry_run,
                                              req.cwd, req.timeout_seconds)
                      IN  IF r.outcome.kind = "error"
                          THEN Fail(r, "ToolError", "CwdNotAllowedError")
                          ELSE r

(***************************************************************************)
(* Actions.  Each action is the stretch of a handler between two awaits.   *)
(***************************************************************************)
\* alias_exec after execute_alias returned: write_audit_log, then the payload.
\* io_ok: whether creating the directory and appending to the file succeed.
ReturnPayloadRewritingFile(t, c, io_ok) ==
    LET alias == c.alias.val
        result == c.result.val
    IN  IF io_ok
        THEN /\ auditLog' = <<AuditLine(alias, c.args, result.cwd, result, clock)>>
             /\ auditTrail' = <<[task |-> t,
                                 entry |-> AuditEntry(alias, c.args, result.cwd,
                                                      result, clock)]>>
             /\ calls' = [calls EXCEPT ![t] =
                            [c EXCEPT !.pc = "done", !.logged = 1,
                                      !.outcome = Returned(Payload(result, alias))]]
        ELSE /\ UNCHANGED <<auditLog, auditTrail>>
             /\ calls' = [calls EXCEPT ![t] = Fail(c, "OSError", "audit log")]

\* a variant that writes the payload without the newline behind it
ReturnPayloadNoNewline(t, c, io_ok) ==
    LET alias == c.alias.val
        result == c.result.val
        line == AuditLine(alias, c.args, result.cwd, result, clock)
    IN  IF io_ok
        THEN /\ auditLog' = IF auditLog = <<>> THEN <<line>>
                             ELSE [auditLog EXCEPT ![Len(auditLog)] = @ \o line]
             /\ auditTrail' = Append(auditTrail,
                                [task |-> t,
                                 entry |-> AuditEntry(alias, c.args, result.cwd,
                                                      result, clock)])
             /\ calls' = [calls EXCEPT ![t] =
                            [c EXCEPT !.pc = "done", !.logged = 1,
                                      !.outcome = Returned(Payload(result, alias))]]
        ELSE /\ UNCHANGED <<auditLog, auditTrail>>
             /\ calls' = [calls EXCEPT ![t] = Fail(c, "OSError", "audit log")]

\* a variant that swallows a failure of the audit log and answers all the same
ReturnPayloadSwallowingFailure(t, c, io_ok) ==
    LET alias == c.alias.val
        result == c.result.val
    IN  /\ IF io_ok
           THEN /\ auditLog' = Append(auditLog,
                                   AuditLine(alias, c.args, result.cwd, result, clock))
                /\ auditTrail' = Append(auditTrail,
                                   [task |-> t,
                                    entry |-> AuditEntry(alias, c.args, result.cwd,
                                                         result, clock)])
           ELSE UNCHANGED <<auditLog, auditTrail>>
        /\ calls' = [calls EXCEPT ![t] =
                       [c EXCEPT !.pc = "done", !.logged = IF io_ok THEN 1 ELSE 0,
                                 !.outcome = Returned(Payload(result, alias))]]

ReturnPayload(t, c, io_ok) ==
    LET alias == c.alias.val
        result == c.result.val
    IN  IF io_ok
        THEN /\ auditLog' = Append(auditLog,
                                AuditLine(alias, c.args, result.cwd, result, clock))
             /\ auditTrail' = Append(auditTrail,
                                [task |-> t,
                                 entry |-> AuditEntry(alias, c.args, result.cwd,
                                                      result, clock)])
             /\ calls' = [calls EXCEPT ![t] =
                            [c EXCEPT !.pc = "done", !.logged = 1,
                                      !.outcome = Returned(Payload(result, alias))]]
        ELSE /\ UNCHANGED <<auditLog, auditTrail>>
             /\ calls' = [calls EXCEPT ![t] = Fail(c, "OSError", "audit log")]

Settle(t, c, io_ok) ==
    IF c.pc = "result" THEN ReturnPayload(t, c, io_ok)
    ELSE /\ calls' = [calls EXCEPT ![t] = c]
         /\ UNCHANGED <<auditLog, auditTrail>>

\* a client calls the alias.exec tool; the handler runs to its first await
AliasExec(t, requests, maxCalls) ==
    /\ calls[t].pc = "idle"
    /\ clock < maxCalls
    /\ clock' = clock + 1
    /\ LET refreshed == refresh(config, catalog)
       IN  \E req \in requests, io_ok \in BOOLEAN :
              LET cat == IF ~req.dry_run /\ ~req.confirm THEN catalog ELSE refreshed
              IN  /\ catalog' = cat
                  /\ Settle(t, alias_exec(req, cat, config), io_ok)
    /\ UNCHANGED <<aliasFiles, hostCommands, config, classifier, environ>>

\* a variant that looks the alias up again when the process is created
SpawnOkRereadingCatalog(t, durations) ==
    /\ calls[t].pc = "spawning"
    /\ \E d \in durations :
          LET again == CatalogGet(catalog, calls[t].req.name)
              command == IF again.some
                         THEN _build_command(again.val.expansion, calls[t].args)
                         ELSE calls[t].command
          IN  calls' = [calls EXCEPT ![t].pc = "running", ![t].spawned = TRUE,
                                     ![t].duration = d, ![t].command = command]
    /\ UNCHANGED <<aliasFiles, hostCommands, config, classifier, catalog, environ,
                   auditLog, auditTrail, clock>>

\* create_subprocess_exec returns a process
SpawnOk(t, durations) ==
    /\ calls[t].pc = "spawning"
    /\ \E d \in durations :
          calls' = [calls EXCEPT ![t].pc = "running", ![t].spawned = TRUE,
                                 ![t].duration = d]
    /\ UNCHANGED <<aliasFiles, hostCommands, config, classifier, catalog, environ,
                   auditLog, auditTrail, clock>>

\* create_subprocess_exec raises: the OSError leaves alias_exec unhandled
SpawnFails(t) ==
    /\ calls[t].pc = "spawning"
    /\ calls' = [calls EXCEPT ![t] = Fail(calls[t], "OSError", "spawn")]
    /\ UNCHANGED <<aliasFiles, hostCommands, config, classifier, catalog, environ,
                   auditLog, auditTrail, clock>>

\* wait_for(timeout): with a timeout <= 0 it expires at once
FinishesInTime(c) == c.timeout.val > 0 /\ c.duration <= c.timeout.val
Expires(c) == c.timeout.val <= 0 \/ c.duration >= c.timeout.val

ReturnCodes == {0, 1}
KilledReturnCodes == {0 - 9, 0}

\* the process exits and communicate() returns before the timeout
ProcessExit(t, outputs) ==
    /\ calls[t].pc = "running"
    /\ FinishesInTime(calls[t])
    /\ \E both \in outputs, returncode \in ReturnCodes, io_ok \in BOOLEAN :
          LET c == calls[t]
              out == both[1]
              err == both[2]
              result == RealResult(c.command, c.cwd.val, config, out, err,
                                   FALSE, returncode)
          IN  ReturnPayload(t, [c EXCEPT !.result = Some(result),
                                         !.stdout_bytes = out,
                                         !.stderr_bytes = err,
                                         !.returncode = Some(returncode)], io_ok)
    /\ UNCHANGED <<aliasFiles, hostCommands, config, classifier, catalog, environ, clock>>

\* wait_for raises TimeoutError; the handler calls process.kill() and awaits
\* communicate() again
Timeout(t) ==
    /\ calls[t].pc = "running"
    /\ Expires(calls[t])
    /\ calls' = [calls EXCEPT ![t].pc = "draining", ![t].killed = TRUE]
    /\ UNCHANGED <<aliasFiles, hostCommands, config, classifier, catalog, environ,
                   auditLog, auditTrail, clock>>

\* communicate() returns after the kill
DrainDone(t, outputs) ==
    /\ calls[t].pc = "draining"
    /\ \E both \in outputs, returncode \in KilledReturnCodes, io_ok \in BOOLEAN :
          LET c == calls[t]
              out == both[1]
              err == both[2]
              result == RealResult(c.command, c.cwd.val, config, out, err,
                                   TRUE, returncode)
          IN  ReturnPayload(t, [c EXCEPT !.result = Some(result),
                                         !.stdout_bytes = out,
                                         !.stderr_bytes = err,
                                         !.returncode = Some(returncode)], io_ok)
    /\ UNCHANGED <<aliasFiles, hostCommands, config, classifier, catalog, environ, clock>>

\* the transport delivers the payload or the error to the client
Respond(t) ==
    /\ calls[t].pc = "done"
    /\ calls' = [calls EXCEPT ![t] = IdleCall]
    /\ UNCHANGED <<aliasFiles, hostCommands, config, classifier, catalog, environ,
                   auditLog, auditTrail, clock>>

\* the user edits the alias files
EditAliasFiles(versions) ==
    /\ \E v \in versions : aliasFiles' = v /\ v # aliasFiles
    /\ UNCHANGED <<hostCommands, config, classifier, catalog, environ, calls,
                   auditLog, auditTrail, clock>>

\* os.environ, which execute_alias reads at the spawn, differs from one call
\* to the next
HostEnvChanges(envs) ==
    /\ \E e \in envs : environ' = e /\ e # environ
    /\ UNCHANGED <<aliasFiles, hostCommands, config, classifier, catalog, calls,
                   auditLog, auditTrail, clock>>

\* build_catalog over the configured alias files, once
BuildCatalog ==
    /\ clock = 0
    /\ clock' = 1
    /\ catalog' = build_catalog(config.alias_files, classifier)
    /\ UNCHANGED <<aliasFiles, hostCommands, config, classifier, environ, calls,
                   auditLog, auditTrail>>

\* runtime.list_aliases(), as alias.catalog calls it: refresh, then all()
ListAliases(t, maxCalls) ==
    /\ calls[t].pc = "idle"
    /\ clock < maxCalls
    /\ clock' = clock + 1
    /\ catalog' = refresh(config, catalog)
    /\ calls' = [calls EXCEPT ![t] =
                   [IdleCall EXCEPT !.pc = "done",
                                    !.seen = Some(catalog'),
                                    !.outcome = Listed(catalog')]]
    /\ UNCHANGED <<aliasFiles, hostCommands, config, classifier, environ,
                   auditLog, auditTrail>>

\* AliasRuntime.refresh and the read behind it, statement by statement, for
\* callers that run on several threads: the call enters refresh(); with hot
\* reload it starts build_catalog on an empty local dict
RefreshBegin(t, maxCalls) ==
    /\ calls[t].pc = "idle"
    /\ clock < maxCalls
    /\ clock' = clock + 1
    /\ calls' = [calls EXCEPT ![t] =
                   IF config.enable_hot_reload
                   THEN [IdleCall EXCEPT !.pc = "building",
                                         !.pending = config.alias_files]
                   ELSE [IdleCall EXCEPT !.pc = "reading"]]
    /\ UNCHANGED <<aliasFiles, hostCommands, config, classifier, catalog, environ,
                   auditLog, auditTrail>>

\* a variant that empties and fills the runtime's catalog object itself
RefreshParseInPlace(t) ==
    /\ calls[t].pc = "building"
    /\ calls[t].pending # <<>>
    /\ LET base == IF calls[t].pending = config.alias_files THEN <<>> ELSE catalog
           filled == AddAllLastWins(base, _parse_file(Head(calls[t].pending), classifier))
       IN  /\ catalog' = filled
           /\ calls' = [u \in Tasks |->
                          IF u = t
                          THEN [calls[t] EXCEPT !.building = filled,
                                                !.pending = Tail(calls[t].pending)]
                          ELSE IF calls[u].held
                          THEN [calls[u] EXCEPT !.seen = Some(filled)]
                          ELSE calls[u]]
    /\ UNCHANGED <<aliasFiles, hostCommands, config, classifier, environ,
                   auditLog, auditTrail, clock>>

\* one turn of build_catalog's loop: the next file is parsed into the local dict
RefreshParse(t) ==
    /\ calls[t].pc = "building"
    /\ calls[t].pending # <<>>
    /\ calls' = [calls EXCEPT ![t] =
                   [calls[t] EXCEPT
                      !.building = AddAllLastWins(calls[t].building,
                                      _parse_file(Head(calls[t].pending), classifier)),
                      !.pending = Tail(calls[t].pending)]]
    /\ UNCHANGED <<aliasFiles, hostCommands, config, classifier, catalog, environ,
                   auditLog, auditTrail, clock>>

\* self.catalog = AliasCatalog(aliases): a new object takes the place of the
\* old one, which its holders keep
RefreshSwap(t) ==
    /\ calls[t].pc = "building"
    /\ calls[t].pending = <<>>
    /\ catalog' = calls[t].building
    /\ calls' = [u \in Tasks |->
                   IF u = t THEN [calls[t] EXCEPT !.pc = "reading", !.building = <<>>]
                   ELSE [calls[u] EXCEPT !.held = FALSE]]
    /\ UNCHANGED <<aliasFiles, hostCommands, config, classifier, environ,
                   auditLog, auditTrail, clock>>

\* self.catalog.all() / self.catalog.get(name): the caller reads the catalog
\* the runtime refers to and holds it until it answers
ReadCatalog(t) ==
    /\ calls[t].pc = "reading"
    /\ calls' = [calls EXCEPT ![t] =
                   [calls[t] EXCEPT !.pc = "done",
                                    !.seen = Some(catalog),
                                    !.held = TRUE,
                                    !.outcome = Listed(catalog)]]
    /\ UNCHANGED <<aliasFiles, hostCommands, config, classifier, catalog, environ,
                   auditLog, auditTrail, clock>>

\* execute_alias called on its own as a dry run, with args of any shape
\* (alias.exec passes a trimmed text or nothing); no audit line is written
ExecuteAliasDryRun(t, argses) ==
    /\ calls[t].pc = "idle"
    /\ \E i \in 1..Len(catalog), args \in argses :
          LET c == [IdleCall EXCEPT !.alias = Some(catalog[i]), !.args = args]
              r == execute_alias(c, catalog[i], args, config, TRUE, Nothing, Nothing)
          IN  calls' = [calls EXCEPT ![t] = [r EXCEPT !.pc = "done"]]
    /\ UNCHANGED <<aliasFiles, hostCommands, config, classifier, catalog, environ,
                   auditLog, auditTrail, clock>>

\* execute_alias called on its own for a real execution, with any timeout
\* override (alias.exec passes only positive ones); it suspends in the spawn
ExecuteAliasReal(t, overrides) ==
    /\ calls[t].pc = "idle"
    /\ \E i \in 1..Len(catalog), timeout_override \in overrides :
          LET c == [IdleCall EXCEPT
                      !.alias = Some(catalog[i]),
                      !.req = Request(catalog[i].name, NoArgs, FALSE, TRUE, Nothing,
                                      timeout_override)]
          IN  calls' = [calls EXCEPT ![t] =
                          execute_alias(c, catalog[i], NoArgs, config, FALSE, Nothing,
                                        timeout_override)]
    /\ UNCHANGED <<aliasFiles, hostCommands, config, classifier, catalog, environ,
                   auditLog, auditTrail, clock>>

(***************************************************************************)
(* Pattern compilation.  A configured pattern is a text that re.compile    *)
(* accepts, giving a pattern, or rejects with re.error.                    *)
(***************************************************************************)
Raw(pattern) == [valid |-> TRUE, pattern |-> pattern]
InvalidRaw == [valid |-> FALSE, pattern |-> Anywhere(<<>>)]

\* a variant that gives up at the first pattern that does not compile
RECURSIVE _compile_patterns_stop_at_invalid(_)
_compile_patterns_stop_at_invalid(patterns) ==
    IF patterns = <<>> \/ ~Head(patterns).valid THEN <<>>
    ELSE <<Head(patterns).pattern>> \o _compile_patterns_stop_at_invalid(Tail(patterns))

\* mcp_shell_aliases.safety: re.error is caught, the pattern skipped
RECURSIVE _compile_patterns(_)
_compile_patterns(patterns) ==
    IF patterns = <<>> THEN <<>>
    ELSE IF Head(patterns).valid
    THEN <<Head(patterns).pattern>> \o _compile_patterns(Tail(patterns))
    ELSE _compile_patterns(Tail(patterns))

\* mcp_shell_aliases.safety.SafetyClassifier.from_strings (allow list only)
from_strings_allow_only(allow_patterns) ==
    from_strings(_compile_patterns(allow_patterns), <<>>)

\* mcp_bash_aliases.safety.SafetyClassifier.from_strings on configured texts:
\* the list comprehensions call re.compile unguarded
from_strings_strict(allow_patterns, deny_patterns) ==
    IF (\A i \in 1..Len(allow_patterns) : allow_patterns[i].valid)
       /\ (\A j \in 1..Len(deny_patterns) : deny_patterns[j].valid)
    THEN Some(from_strings([i \in 1..Len(allow_patterns) |-> allow_patterns[i].pattern],
                           [i \in 1..Len(deny_patterns) |-> deny_patterns[i].pattern]))
    ELSE Nothing

\* the server starts: the classifier is built from the configured patterns
\* and the catalog with it, by the allow-only package
StartAllowOnly(t) ==
    /\ clock = 0
    /\ clock' = 1
    /\ classifier' = from_strings_allow_only(config.allow_patterns)
    /\ catalog' = build_catalog(config.alias_files, classifier')
    /\ calls' = [calls EXCEPT ![t] =
                   [IdleCall EXCEPT !.pc = "done",
                                    !.outcome = Returned([package |-> "mcp_shell_aliases"])]]
    /\ UNCHANGED <<aliasFiles, hostCommands, config, environ, auditLog, auditTrail>>

\* AliasRuntime.build of the package with deny support
StartWithDeny(t) ==
    /\ clock = 0
    /\ clock' = 1
    /\ LET built == from_strings_strict(config.allow_patterns, config.deny_patterns)
       IN  IF built.some
           THEN /\ classifier' = built.val
                /\ catalog' = build_catalog_last_wins(config.alias_files, built.val)
                /\ calls' = [calls EXCEPT ![t] =
                               [IdleCall EXCEPT
                                  !.pc = "done",
                                  !.outcome = Returned([package |-> "mcp_bash_aliases"])]]
           ELSE /\ UNCHANGED <<classifier, catalog>>
                /\ calls' = [calls EXCEPT ![t] =
                               Fail(IdleCall, "re.error", "mcp_bash_aliases")]
    /\ UNCHANGED <<aliasFiles, hostCommands, config, environ, auditLog, auditTrail>>

(***************************************************************************)
(* Configuration loading (mcp_shell_aliases.config, cli).  A dict is a     *)
(* function on its keys; a value is a scalar or a nested dict.             *)
(***************************************************************************)
Scalar(v) == [dict |-> FALSE, val |-> v]
Dict(items) == [dict |-> TRUE, items |-> items]
EmptyDict == [k \in {} |-> Scalar(FALSE)]
Put(d, k, v) == [x \in DOMAIN d \cup {k} |-> IF x = k THEN v ELSE d[x]]

DefaultMaxStdoutBytes == 10000
DefaultMaxStderrBytes == 10000
DefaultTimeoutSeconds == 20

_default_dict ==
    [enable_hot_reload |-> Scalar(TRUE),
     execution |-> Dict([max_stdout_bytes |-> Scalar(DefaultMaxStdoutBytes),
                         max_stderr_bytes |-> Scalar(DefaultMaxStderrBytes),
                         default_timeout_seconds |-> Scalar(DefaultTimeoutSeconds)])]

ConfigFileName == "config.yaml"

\* no --config: the first default file name that exists, else {}
_load_from_file ==
    IF aliasFiles[ConfigFileName].exists THEN aliasFiles[ConfigFileName].mapping
    ELSE EmptyDict

RECURSIVE _merge_dict(_, _)
_merge_dict(target, source) ==
    [k \in DOMAIN target \cup DOMAIN source |->
        IF k \notin DOMAIN source THEN target[k]
        ELSE IF source[k].dict /\ k \in DOMAIN target /\ target[k].dict
        THEN Dict(_merge_dict(target[k].items, source[k].items))
        ELSE source[k]]

\* dotted_key.split(".")
SplitDotted(dotted_key) ==
    IF dotted_key = "execution.max_stdout_bytes" THEN <<"execution", "max_stdout_bytes">>
    ELSE IF dotted_key = "execution.max_stderr_bytes" THEN <<"execution", "max_stderr_bytes">>
    ELSE IF dotted_key = "execution.default_timeout_seconds"
    THEN <<"execution", "default_timeout_seconds">>
    ELSE <<dotted_key>>

\* a variant that merges a dict value into the dict already under the key
RECURSIVE OverrideAtMerging(_, _, _)
OverrideAtMerging(target, parts, value) ==
    IF Len(parts) = 1
    THEN IF value.dict /\ parts[1] \in DOMAIN target /\ target[parts[1]].dict
         THEN [ok |-> TRUE,
               items |-> Put(target, parts[1],
                             Dict(_merge_dict(target[parts[1]].items, value.items)))]
         ELSE [ok |-> TRUE, items |-> Put(target, parts[1], value)]
    ELSE LET next_value == IF parts[1] \in DOMAIN target THEN target[parts[1]]
                           ELSE Dict(EmptyDict)
         IN  IF ~next_value.dict THEN [ok |-> FALSE, items |-> target]
             ELSE LET inner == OverrideAtMerging(next_value.items, Tail(parts), value)
                  IN  [ok |-> inner.ok,
                       items |-> Put(target, parts[1], Dict(inner.items))]

\* the walk of _apply_override down the parts of the key; ok is FALSE where
\* it raises ConfigError
RECURSIVE OverrideAt(_, _, _)
OverrideAt(target, parts, value) ==
    IF Len(parts) = 1 THEN [ok |-> TRUE, items |-> Put(target, parts[1], value)]
    ELSE LET next_value == IF parts[1] \in DOMAIN target THEN target[parts[1]]
                           ELSE Dict(EmptyDict)
         IN  IF ~next_value.dict THEN [ok |-> FALSE, items |-> target]
             ELSE LET inner == OverrideAt(next_value.items, Tail(parts), value)
                  IN  [ok |-> inner.ok,
                       items |-> Put(target, parts[1], Dict(inner.items))]

_apply_override(target, dotted_key, value) ==
    OverrideAt(target, SplitDotted(dotted_key), value)

\* the loops of Config.load over env_config.items() and cli_overrides.items()
RECURSIVE ApplyOverrides(_, _, _)
ApplyOverrides(target, order, overrides) ==
    IF order = <<>> THEN [ok |-> TRUE, items |-> target]
    ELSE IF Head(order) \notin DOMAIN overrides
    THEN ApplyOverrides(target, Tail(order), overrides)
    ELSE LET step == _apply_override(target, Head(order), overrides[Head(order)])
         IN  IF ~step.ok THEN step
             ELSE ApplyOverrides(step.items, Tail(order), overrides)

EnvHotReload == "MCP_SHELL_ALIASES_ENABLE_HOT_RELOAD"
EnvMaxStdout == "MCP_SHELL_ALIASES_MAX_STDOUT_BYTES"
EnvMaxStderr == "MCP_SHELL_ALIASES_MAX_STDERR_BYTES"
EnvTimeout == "MCP_SHELL_ALIASES_DEFAULT_TIMEOUT_SECONDS"

_env_key_map ==
    (EnvHotReload :> "enable_hot_reload")
    @@ (EnvMaxStdout :> "execution.max_stdout_bytes")
    @@ (EnvMaxStderr :> "execution.max_stderr_bytes")
    @@ (EnvTimeout :> "execution.default_timeout_seconds")

EnvTargetOrder ==
    <<"enable_hot_reload", "execution.max_stdout_bytes", "execution.max_stderr_bytes",
      "execution.default_timeout_seconds">>

\* int(raw) on the text of a decimal number
RECURSIVE ParseInt(_)
ParseInt(raw) ==
    IF raw = <<>> THEN 0
    ELSE ParseInt(SubSeq(raw, 1, Len(raw) - 1)) * 10
         + (CHOOSE d \in 0..9 : DigitChars[d + 1] = raw[Len(raw)])

TruthyTexts == {<<"1">>, <<"t","r","u","e">>, <<"y","e","s">>, <<"o","n">>}

_parse_env_value(target, raw) ==
    IF target = "enable_hot_reload" THEN Scalar(Lower(raw) \in TruthyTexts)
    ELSE Scalar(ParseInt(raw))

_load_from_env(env) ==
    LET present == {key \in DOMAIN _env_key_map : key \in DOMAIN env}
    IN  [target \in {_env_key_map[key] : key \in present} |->
            LET key == CHOOSE k \in present : _env_key_map[k] = target
            IN  _parse_env_value(target, env[key])]

\* argparse's Namespace for the options modelled: each is None or a value
Namespace(hot_reload, max_stdout_bytes, max_stderr_bytes, default_timeout_seconds) ==
    [hot_reload |-> hot_reload, max_stdout_bytes |-> max_stdout_bytes,
     max_stderr_bytes |-> max_stderr_bytes,
     default_timeout_seconds |-> default_timeout_seconds]

LimitKeys == {"max_stdout_bytes", "max_stderr_bytes", "default_timeout_seconds"}

build_cli_overrides(args) ==
    LET execution == [k \in {x \in LimitKeys : args[x].some} |-> Scalar(args[k].val)]
        top == IF args.hot_reload.some
               THEN Put(EmptyDict, "enable_hot_reload", Scalar(args.hot_reload.val))
               ELSE EmptyDict
    IN  IF DOMAIN execution # {} THEN Put(top, "execution", Dict(execution)) ELSE top

CliKeyOrder == <<"enable_hot_reload", "execution">>

GetOr(d, k, default) == IF k \in DOMAIN d THEN d[k].val ELSE default

_build_config(raw) ==
    LET execution_dict == IF "execution" \in DOMAIN raw THEN raw["execution"].items
                          ELSE EmptyDict
    IN  [enable_hot_reload |-> GetOr(raw, "enable_hot_reload", TRUE),
         execution |->
            [max_stdout_bytes |->
                GetOr(execution_dict, "max_stdout_bytes", DefaultMaxStdoutBytes),
             max_stderr_bytes |->
                GetOr(execution_dict, "max_stderr_bytes", DefaultMaxStderrBytes),
             default_timeout_seconds |->
                GetOr(execution_dict, "default_timeout_seconds", DefaultTimeoutSeconds)]]

\* Config.load(env=env, cli_overrides=cli_overrides)
ConfigLoad(env, cli_overrides) ==
    LET merged == _merge_dict(_default_dict, _load_from_file)
        after_env == ApplyOverrides(merged, EnvTargetOrder, _load_from_env(env))
        after_cli == IF ~after_env.ok THEN after_env
                     ELSE ApplyOverrides(after_env.items, CliKeyOrder, cli_overrides)
    IN  IF after_cli.ok THEN Some(_build_config(after_cli.items)) ELSE Nothing

\* cli.main: parse_args, build_cli_overrides, Config.load
Main(t, namespaces) ==
    /\ calls[t].pc = "idle"
    /\ \E args \in namespaces :
          LET loaded == ConfigLoad(environ, build_cli_overrides(args))
          IN  /\ config' = IF loaded.some THEN loaded.val ELSE config
              /\ calls' = [calls EXCEPT ![t] =
                             [IdleCall EXCEPT
                                !.pc = "done",
                                !.req = args,
                                !.outcome = IF loaded.some THEN Returned(loaded.val)
                                            ELSE Raised("ConfigError", "override")]]
    /\ UNCHANGED <<aliasFiles, hostCommands, classifier, catalog, environ,
                   auditLog, auditTrail, clock>>

(***************************************************************************)
(* Inputs of the server specification.                                     *)
(***************************************************************************)
nmSafe == <<"s","a","f","e">>
nmDanger == <<"d","a","n","g","e","r">>
nmMissing == <<"m","i","s","s","i","n","g">>
expEchoHello == <<"e","c","h","o"," ","h","e","l","l","o">>
expRmRf == <<"r","m"," ","-","r","f"," ","/">>

\* alias NAME=<quote>BODY<quote>
DefLine(name, quote, body) ==
    kwAlias \o <<" ">> \o name \o <<"=", quote>> \o body \o <<quote>>

File(lines) == [exists |-> TRUE, lines |-> lines]
MissingFile == [exists |-> FALSE, lines |-> <<>>]

\* the alias file of the server tests, and an edited version in which the
\* name "safe" is given a destructive expansion
FilesV1 ==
    [f \in {"f1"} |-> File(<<DefLine(nmSafe, "'", expEchoHello),
                            DefLine(nmDanger, "'", expRmRf)>>)]
FilesV2 ==
    [f \in {"f1"} |-> File(<<DefLine(nmSafe, "'", expRmRf)>>)]

HomePath == AbsPath(HomeDir)

BaseConfig ==
    [alias_files |-> <<"f1">>,
     allow_patterns |-> <<Anchored(cmdEcho)>>,
     deny_patterns |-> <<Anchored(cmdRm)>>,
     default_cwd |-> HomePath,
     enable_hot_reload |-> TRUE,
     execution |-> [max_stdout_bytes |-> 2, max_stderr_bytes |-> 1,
                    default_timeout_seconds |-> 1],
     allow_cwd_roots |-> <<HomePath>>]

BaseEnviron == [k \in {"LANG"} |-> "en_US.UTF-8"]

\* AliasRuntime.build(config) on the given files
BuildRuntime(cfg, files, commands, env) ==
    /\ config = cfg
    /\ aliasFiles = files
    /\ hostCommands = commands
    /\ environ = env
    /\ classifier = from_strings(cfg.allow_patterns, cfg.deny_patterns)
    /\ catalog = build_catalog_last_wins(cfg.alias_files, classifier)
    /\ calls = [t \in Tasks |-> IdleCall]
    /\ auditLog = <<>>
    /\ auditTrail = <<>>
    /\ clock = 0

\* Spec: sequences of alias.exec calls on one task, with the alias file
\* edited between them.
ServerConfigs ==
    {[BaseConfig EXCEPT !.enable_hot_reload = h] : h \in BOOLEAN}

ServerRequests ==
    {Request(n, NoArgs, d, c, w, s) :
        n \in {nmSafe, nmDanger, nmMissing},
        d \in BOOLEAN, c \in BOOLEAN,
        w \in {Nothing, Some(AbsPath(<<segEtc>>))},
        s \in {Nothing, Some(0)}}

ServerDurations == {0, 2}
\* <<stdout, stderr>> as communicate() returns them
ServerOutputs == {<<<<ByteA, ByteA, ByteA>>, <<ByteA, ByteA, ByteA>>>>}

Init ==
    \E cfg \in ServerConfigs :
        BuildRuntime(cfg, FilesV1, {cmdLs}, BaseEnviron)

Next ==
    \/ AliasExec(1, ServerRequests, MaxCalls)
    \/ SpawnOk(1, ServerDurations)
    \/ SpawnFails(1)
    \/ ProcessExit(1, ServerOutputs)
    \/ Timeout(1)
    \/ DrainDone(1, ServerOutputs)
    \/ Respond(1)
    \/ EditAliasFiles({FilesV1, FilesV2})

Spec == Init /\ [][Next]_vars

\* SpecCall: one alias.exec call with every combination of its parameters,
\* under every configured default timeout.
DefaultTimeouts == 0..MaxDefaultTimeout

CallConfigs ==
    {[BaseConfig EXCEPT !.execution.default_timeout_seconds = d] :
        d \in DefaultTimeouts}

CallTimeouts ==
    {Nothing, Some(0 - 1), Some(0), Some(1)}
    \cup {Some(5 * d) : d \in 1..MaxDefaultTimeout}
    \cup {Some(5 * d + 1) : d \in 1..MaxDefaultTimeout}

CallCwds ==
    {Nothing, Some(AbsPath(<<segHome, segProj>>)), Some(AbsPath(<<segEtc>>))}

CallArgs == {NoArgs, StrArgs(<<" ", " ">>), StrArgs(<<" ", "x", " ", "y", " ">>)}

CallRequests ==
    {Request(n, a, d, c, w, s) :
        n \in {nmSafe, nmDanger, nmMissing},
        a \in CallArgs,
        d \in BOOLEAN, c \in BOOLEAN,
        w \in CallCwds,
        s \in CallTimeouts}

CallDurations == {0, 1, 3, 5 * MaxDefaultTimeout + 1}
CallOutputs == {<<>>, <<ByteA, ByteA, ByteA>>} \X {<<>>, <<ByteA, ByteA, ByteA>>}

InitCall ==
    \E cfg \in CallConfigs :
        BuildRuntime(cfg, FilesV1, {cmdLs}, BaseEnviron)

NextCall ==
    \/ AliasExec(1, CallRequests, 1)
    \/ SpawnOk(1, CallDurations)
    \/ SpawnFails(1)
    \/ ProcessExit(1, CallOutputs)
    \/ Timeout(1)
    \/ DrainDone(1, CallOutputs)

SpecCall == InitCall /\ [][NextCall]_vars

\* SpecCallFair: SpecCall with the steps the event loop takes on its own:
\* the spawn returns or raises, communicate() returns once the process has
\* exited in time, and the timer of wait_for fires.  communicate() after the
\* kill returns only when the pipes reach end of file, which is up to the
\* child and its descendants: that step carries no fairness.
SpecCallFair ==
    /\ SpecCall
    /\ WF_vars(SpawnOk(1, CallDurations) \/ SpawnFails(1))
    /\ WF_vars(ProcessExit(1, CallOutputs))
    /\ WF_vars(Timeout(1))

\* SpecCwd: one call under every configuration of the allow-roots, asking for
\* directories inside and outside them, directly, through "..", through a
\* symbolic link, relative to the process directory and through "~".
segHomeX == <<"h", "x">>

CwdRootLists ==
    {<<HomePath>>,
     <<RelPath(<<segTilde, segProj>>)>>,
     <<AbsPath(<<segIn>>)>>,
     <<AbsPath(<<segEtc>>), AbsPath(<<segHome, segProj>>)>>,
     <<>>}

CwdConfigs == {[BaseConfig EXCEPT !.allow_cwd_roots = r] : r \in CwdRootLists}

CwdPaths ==
    {AbsPath(<<segHome>>),
     AbsPath(<<segHome, segProj>>),
     AbsPath(<<segEtc>>),
     AbsPath(<<segHomeX>>),
     AbsPath(<<segHome, segProj, segUp, segUp, segEtc>>),
     AbsPath(<<segHome, segUp, segHome, segProj>>),
     AbsPath(<<segHome, segOut>>),
     AbsPath(<<segIn>>),
     RelPath(<<segSecret>>),
     RelPath(<<segUp>>),
     RelPath(<<segTilde>>)}

CwdRequests ==
    {Request(nmSafe, NoArgs, d, TRUE, w, Nothing) :
        d \in BOOLEAN, w \in {Nothing} \cup {Some(q) : q \in CwdPaths}}

CwdDurations == {0, 2}
CwdOutputs == {<<>>, <<ByteA>>} \X {<<>>, <<ByteA>>}

InitCwd ==
    \E cfg \in CwdConfigs :
        BuildRuntime(cfg, FilesV1, {cmdLs}, BaseEnviron)

NextCwd ==
    \/ AliasExec(1, CwdRequests, 1)
    \/ SpawnOk(1, CwdDurations)
    \/ SpawnFails(1)
    \/ ProcessExit(1, CwdOutputs)
    \/ Timeout(1)
    \/ DrainDone(1, CwdOutputs)

SpecCwd == InitCwd /\ [][NextCwd]_vars

\* SpecTrunc: one real call under every pair of output limits, the process
\* writing every byte sequence up to MaxBytes to one stream while the other
\* stream is empty or full.
ByteSeqs == UNION {[1..k -> Bytes] : k \in 0..MaxBytes}
ProbeSeqs == {<<>>, [i \in 1..MaxBytes |-> ByteA]}

TruncConfigs ==
    {[BaseConfig EXCEPT !.execution.max_stdout_bytes = lo,
                        !.execution.max_stderr_bytes = le] :
        lo \in 0..MaxLimit, le \in 0..MaxLimit}

TruncRequests == {Request(nmSafe, NoArgs, d, TRUE, Nothing, Nothing) : d \in BOOLEAN}
TruncDurations == {0, 2}
TruncOutputs == (ByteSeqs \X ProbeSeqs) \cup (ProbeSeqs \X ByteSeqs)

InitTrunc ==
    \E cfg \in TruncConfigs :
        BuildRuntime(cfg, FilesV1, {cmdLs}, BaseEnviron)

NextTrunc ==
    \/ AliasExec(1, TruncRequests, 1)
    \/ SpawnOk(1, TruncDurations)
    \/ SpawnFails(1)
    \/ ProcessExit(1, TruncOutputs)
    \/ Timeout(1)
    \/ DrainDone(1, TruncOutputs)

SpecTrunc == InitTrunc /\ [][NextTrunc]_vars

\* SpecEnv: two calls in flight together, each reading the host environment
\* as it is at its own spawn; the host environment varies in its locale
\* variables and in variables the command must not see.
LocaleEnvs ==
    {<<>>,
     [k \in {"LANG", "LC_ALL", "LC_CTYPE", "LC_NUMERIC", "LANGUAGE"} |-> "de_DE.UTF-8"]}

OtherEnvs ==
    {<<>>,
     [k \in {"AWS_SECRET_ACCESS_KEY", "PATH", "HOME", "PWD", "LC_TIME"} |-> "host-value"]}

HostEnvs == {l @@ o : l \in LocaleEnvs, o \in OtherEnvs}

EnvRequests ==
    {Request(nmSafe, NoArgs, FALSE, TRUE, w, Nothing) :
        w \in {Nothing, Some(AbsPath(<<segHome, segProj>>))}}
EnvDurations == {0, 2}
EnvOutputs == {<<<<>>, <<>>>>}

InitEnv ==
    \E e \in HostEnvs : BuildRuntime(BaseConfig, FilesV1, {cmdLs}, e)

NextEnv ==
    \/ \E t \in Tasks :
          \/ AliasExec(t, EnvRequests, 2)
          \/ SpawnOk(t, EnvDurations)
          \/ SpawnFails(t)
          \/ ProcessExit(t, EnvOutputs)
          \/ Timeout(t)
          \/ DrainDone(t, EnvOutputs)
    \/ HostEnvChanges(HostEnvs)

SpecEnv == InitEnv /\ [][NextEnv]_vars

\* SpecAudit: one call whose args are put together from fragments that hold
\* the keywords in several spellings, values behind them, a prefix and a
\* blank; the alias name and the directory hold a keyword too.
nmMyToken == <<"m","y","t","o","k","e","n","s">>
fragTokenValue == <<"t","o","k","e","n","=","a","b","c","d">>
fragPasswordValue == <<"p","a","s","s","w","o","r","d","=","h","u","n","t","e","r","2">>
fragSecretMixed == <<"S","e","C","R","E","t">>
fragPrefix == <<"m","y">>
fragValue == <<"x">>
fragBlank == <<" ">>

AuditFrags ==
    {fragTokenValue, fragPasswordValue, fragSecretMixed, fragPrefix, fragValue, fragBlank}

AuditTexts == {Flatten(fs) : fs \in UNION {[1..k -> AuditFrags] : k \in 0..MaxFrags}}

FilesAudit ==
    [f \in {"f1"} |-> File(<<DefLine(nmSafe, "'", expEchoHello),
                            DefLine(nmMyToken, "'", expEchoHello)>>)]

AuditRequests ==
    {Request(n, IF x = <<>> THEN NoArgs ELSE StrArgs(x), d, TRUE, w, Nothing) :
        n \in {nmSafe, nmMyToken}, x \in AuditTexts, d \in BOOLEAN,
        w \in {Nothing, Some(RelPath(<<segSecret>>))}}
AuditDurations == {0, 2}
AuditOutputs == {<<<<>>, <<>>>>}

InitAudit == BuildRuntime(BaseConfig, FilesAudit, {cmdLs}, BaseEnviron)

NextAudit ==
    \/ AliasExec(1, AuditRequests, 1)
    \/ SpawnOk(1, AuditDurations)
    \/ SpawnFails(1)
    \/ ProcessExit(1, AuditOutputs)
    \/ Timeout(1)
    \/ DrainDone(1, AuditOutputs)

SpecAudit == InitAudit /\ [][NextAudit]_vars

\* SpecCatalog: up to MaxDefs definitions, most of them of the name "ll",
\* spread over two alias files in every way, on hosts with and without ls
\* and gls.
nmLl == <<"l","l">>
expLs == <<"l","s"," ","-","l">>
expGls == <<"g","l","s"," ","-","l">>
expFoo == <<"f","o","o">>
expEchoHi == <<"e","c","h","o"," ","h","i">>
expUnclosed == <<"l","s"," ","\"","x">>

CatalogLines ==
    {DefLine(nmLl, "'", expLs), DefLine(nmLl, "'", expGls), DefLine(nmLl, "'", expFoo),
     DefLine(nmLl, "'", expEchoHi), DefLine(nmLl, "'", expUnclosed),
     DefLine(nmLl, "'", <<>>), DefLine(nmSafe, "'", expFoo)}

CatalogLineSeqs == UNION {[1..k -> CatalogLines] : k \in 0..MaxDefs}

CatalogFileSets ==
    UNION {{[f \in {"f1", "f2"} |->
                File(IF f = "f1" THEN SubSeq(ls, 1, cut)
                     ELSE SubSeq(ls, cut + 1, Len(ls)))] : cut \in 0..Len(ls)} :
           ls \in CatalogLineSeqs}

CatalogHosts == {{}, {cmdLs}, {cmdLs, cmdGls}}

CatalogConfig ==
    [BaseConfig EXCEPT !.alias_files = <<"f1", "f2">>, !.deny_patterns = <<>>]

InitCatalog ==
    /\ config = CatalogConfig
    /\ aliasFiles \in CatalogFileSets
    /\ hostCommands \in CatalogHosts
    /\ environ = BaseEnviron
    /\ classifier = from_strings(CatalogConfig.allow_patterns, <<>>)
    /\ catalog = <<>>
    /\ calls = [t \in Tasks |-> IdleCall]
    /\ auditLog = <<>>
    /\ auditTrail = <<>>
    /\ clock = 0

NextCatalog == BuildCatalog

SpecCatalog == InitCatalog /\ [][NextCatalog]_vars

\* SpecReload: alias.exec dry runs and alias.catalog calls, with the two
\* alias files edited between them; the files hold definitions in both
\* quotes, with escaped quotes, with blanks around them, and lines that
\* define nothing.
nmQ == <<"q">>
nmSp == <<"s","p">>
nmBadName == <<"b","a","d","-","n">>
bodyEscSingle == <<"e","c","h","o"," ","\\","'","x","\\","'">>
bodyEscDouble == <<"e","c","h","o"," ","\\","\"","h","i","\\","\"">>
bodyRmOtherEsc == <<"r","m"," ","\\","'","x">>

lineSafe == DefLine(nmSafe, "'", expEchoHello)
lineSafeRm == DefLine(nmSafe, "'", expRmRf)
lineDanger == DefLine(nmDanger, "'", expRmRf)
lineSp == <<" ", " ">> \o DefLine(nmSp, "'", bodyEscSingle) \o <<" ", "\t">>
lineQ == DefLine(nmQ, "\"", bodyEscDouble)
lineQRm == DefLine(nmQ, "\"", bodyRmOtherEsc)
lineLl == DefLine(nmLl, "'", expLs)
lineLlEcho == DefLine(nmLl, "'", expEchoHi)
lineComment == <<"#", " ">> \o lineSafe
lineBadName == DefLine(nmBadName, "'", expEchoHello)
lineUnquoted == kwAlias \o <<" ", "u", "=">> \o expEchoHello
lineMismatch == kwAlias \o <<" ", "m", "=", "'">> \o expEchoHello \o <<"\"">>

ReloadV1 ==
    ("f1" :> File(<<lineSafe, lineComment, lineSp, lineBadName, lineDanger>>))
    @@ ("f2" :> File(<<lineLl, lineQ, lineUnquoted>>))
ReloadV2 ==
    ("f1" :> File(<<lineSafeRm, <<>>, lineMismatch, lineQ>>))
    @@ ("f2" :> File(<<lineLlEcho, lineQRm, lineSafe>>))
ReloadV3 ==
    ("f1" :> MissingFile) @@ ("f2" :> File(<<lineLl, lineLlEcho>>))

ReloadVersions == {ReloadV1, ReloadV2, ReloadV3}

ReloadConfigs ==
    {[BaseConfig EXCEPT !.alias_files = <<"f1", "f2">>, !.enable_hot_reload = h] :
        h \in BOOLEAN}

ReloadRequests ==
    {Request(n, NoArgs, TRUE, FALSE, Nothing, Nothing) :
        n \in {nmSafe, nmQ, nmLl, nmMissing}}
    \cup {Request(nmSafe, NoArgs, FALSE, FALSE, Nothing, Nothing)}

InitReload ==
    \E cfg \in ReloadConfigs, v \in ReloadVersions :
        BuildRuntime(cfg, v, {cmdLs}, BaseEnviron)

NextReload ==
    \/ AliasExec(1, ReloadRequests, MaxCalls)
    \/ ListAliases(1, MaxCalls)
    \/ Respond(1)
    \/ EditAliasFiles(ReloadVersions)

SpecReload == InitReload /\ [][NextReload]_vars

\* SpecSafety: runtimes built with every allow and deny list of up to
\* MaxPatterns patterns, over alias files whose expansions match none, one
\* or both of the lists.
wordEcho == <<"e","c","h","o">>
wordRm == <<"r","m">>
expEchoRm == <<"e","c","h","o"," ","r","m">>
expXecho == <<"x","e","c","h","o">>
SafetyPatterns == {Anchored(wordEcho), Anywhere(wordEcho), Anchored(wordRm), Anywhere(wordRm)}
SafetyPatternLists == UNION {[1..k -> SafetyPatterns] : k \in 0..MaxPatterns}
SafetyExpansions == {expEchoHello, expRmRf, expEchoRm, expXecho, expLs, <<>>}

SafetyV1 ==
    "f1" :> File(<<DefLine(<<"a">>, "'", expEchoHello), DefLine(<<"b">>, "'", expRmRf),
                   DefLine(<<"c">>, "'", expEchoRm)>>)
SafetyV2 ==
    "f1" :> File(<<DefLine(<<"a">>, "'", expXecho), DefLine(<<"b">>, "'", expLs),
                   DefLine(<<"c">>, "'", <<>>)>>)
SafetyVersions == {SafetyV1, SafetyV2}

SafetyConfigs ==
    {[BaseConfig EXCEPT !.allow_patterns = al, !.deny_patterns = dl] :
        al \in SafetyPatternLists, dl \in SafetyPatternLists}

InitSafety ==
    \E cfg \in SafetyConfigs, v \in SafetyVersions :
        BuildRuntime(cfg, v, {}, BaseEnviron)

NextSafety ==
    \/ ListAliases(1, MaxCalls)
    \/ Respond(1)
    \/ EditAliasFiles(SafetyVersions)

SpecSafety == InitSafety /\ [][NextSafety]_vars

\* SpecSwap: two callers whose refreshes and reads interleave statement by
\* statement, with the alias files edited at any moment; every version of
\* each file defines at least one alias, and the two files share no name.
SwapV1 ==
    ("f1" :> File(<<lineSafe, lineDanger>>)) @@ ("f2" :> File(<<lineLl, lineQ>>))
SwapV2 ==
    ("f1" :> File(<<lineSafeRm, lineSp>>)) @@ ("f2" :> File(<<lineLlEcho>>))
SwapV3 ==
    ("f1" :> File(<<lineSp>>)) @@ ("f2" :> File(<<lineQRm, lineLl>>))
SwapVersions == {SwapV1, SwapV2, SwapV3}

InitSwap ==
    \E cfg \in ReloadConfigs, v \in SwapVersions :
        BuildRuntime(cfg, v, {cmdLs}, BaseEnviron)

NextSwap ==
    \/ \E t \in Tasks :
          \/ RefreshBegin(t, MaxCalls)
          \/ RefreshParse(t)
          \/ RefreshSwap(t)
          \/ ReadCatalog(t)
          \/ Respond(t)
    \/ EditAliasFiles(SwapVersions)

SpecSwap == InitSwap /\ [][NextSwap]_vars

\* SpecCommand: execute_alias as a dry run on every args value put together
\* from up to MaxFrags characters (a text) or tokens (a sequence).
expLsBlank == <<"l","s"," ">>
CommandFiles ==
    "f1" :> File(<<lineSafe, DefLine(nmLl, "'", expLsBlank)>>)
ArgChars == {" ", "\t", "x"}
ArgTokens == {<<>>, <<"x">>, <<"a", " ", "b">>, <<" ">>}
CommandArgs ==
    {NoArgs}
    \cup {StrArgs(text) : text \in UNION {[1..k -> ArgChars] : k \in 0..MaxFrags}}
    \cup {ListArgs(tokens) : tokens \in UNION {[1..k -> ArgTokens] : k \in 0..MaxFrags}}

InitCommand == BuildRuntime(BaseConfig, CommandFiles, {cmdLs}, BaseEnviron)

NextCommand ==
    \/ ExecuteAliasDryRun(1, CommandArgs)
    \/ Respond(1)

SpecCommand == InitCommand /\ [][NextCommand]_vars

\* SpecConfig: the server is started with every combination of a config
\* file, environment variables and command-line options that each give, or
\* do not give, hot reload and each of the three execution limits; the file
\* gives 1, the environment 2 and the command line 3 for a limit.
ConfigFileMappings ==
    {IF DOMAIN limits = {} THEN top ELSE Put(top, "execution", Dict(limits)) :
        top \in {EmptyDict, Put(EmptyDict, "enable_hot_reload", Scalar(FALSE))},
        limits \in UNION {[ks -> {Scalar(1)}] : ks \in SUBSET LimitKeys}}

ConfigFiles ==
    {ConfigFileName :> [exists |-> FALSE, lines |-> <<>>, mapping |-> EmptyDict]}
    \cup {ConfigFileName :> [exists |-> TRUE, lines |-> <<>>, mapping |-> m] :
            m \in ConfigFileMappings}

ConfigEnvs ==
    {hot @@ limits :
        hot \in {<<>>, EnvHotReload :> <<"O","N">>, EnvHotReload :> <<"o","f","f">>},
        limits \in UNION {[ks -> {<<"2">>}] : ks \in SUBSET {EnvMaxStdout, EnvMaxStderr, EnvTimeout}}}

ConfigNamespaces ==
    {Namespace(h, o, e, s) :
        h \in {Nothing, Some(TRUE), Some(FALSE)},
        o \in {Nothing, Some(3)}, e \in {Nothing, Some(3)}, s \in {Nothing, Some(3)}}

InitConfig ==
    /\ aliasFiles \in ConfigFiles
    /\ environ \in ConfigEnvs
    /\ config = _build_config(_default_dict)
    /\ hostCommands = {}
    /\ classifier = from_strings(<<>>, <<>>)
    /\ catalog = <<>>
    /\ calls = [t \in Tasks |-> IdleCall]
    /\ auditLog = <<>>
    /\ auditTrail = <<>>
    /\ clock = 0

NextConfig == Main(1, ConfigNamespaces)

SpecConfig == InitConfig /\ [][NextConfig]_vars

\* SpecTimeout: execute_alias called on its own with every timeout override
\* around zero, under every default timeout, up to the kill.
TimeoutOverrides ==
    {Nothing} \cup {Some(n) : n \in (0 - 2)..(MaxDefaultTimeout + 1)}
TimeoutDurations == {0, 1, 2, 5}

InitTimeout ==
    \E cfg \in CallConfigs :
        BuildRuntime(cfg, FilesV1, {cmdLs}, BaseEnviron)

NextTimeout ==
    \/ ExecuteAliasReal(1, TimeoutOverrides)
    \/ SpawnOk(1, TimeoutDurations)
    \/ SpawnFails(1)
    \/ Timeout(1)

SpecTimeout == InitTimeout /\ [][NextTimeout]_vars

\* SpecNames: a catalog built from one file whose first line defines a name
\* put together from up to MaxNameLen characters, allowed by the grammar or
\* not, in either quote; its second line is a plain definition.
NameAlphabet == {"a", "T", "1", "_", "-", "!", "$", " ", "\\", Backtick}
NamePool == UNION {[1..k -> NameAlphabet] : k \in 1..MaxNameLen}

NameFiles ==
    {"f1" :> File(<<DefLine(n, q, expEchoHi), lineSafe>>) :
        n \in NamePool, q \in QuoteChars}

InitNames ==
    /\ config = [BaseConfig EXCEPT !.deny_patterns = <<>>]
    /\ aliasFiles \in NameFiles
    /\ hostCommands \in {{}, {cmdLs}}
    /\ environ = BaseEnviron
    /\ classifier = from_strings(BaseConfig.allow_patterns, <<>>)
    /\ catalog = <<>>
    /\ calls = [t \in Tasks |-> IdleCall]
    /\ auditLog = <<>>
    /\ auditTrail = <<>>
    /\ clock = 0

NextNames == BuildCatalog

SpecNames == InitNames /\ [][NextNames]_vars

\* SpecCompile: either package starts with every list of up to MaxPatterns
\* configured patterns, valid or not.
RawPatterns == {Raw(Anchored(wordEcho)), Raw(Anywhere(wordRm)), InvalidRaw}
RawPatternLists == UNION {[1..k -> RawPatterns] : k \in 0..MaxPatterns}

InitCompile ==
    /\ config \in {[BaseConfig EXCEPT !.allow_patterns = al, !.deny_patterns = dl] :
                      al \in RawPatternLists, dl \in RawPatternLists}
    /\ aliasFiles = SafetyV1
    /\ hostCommands = {}
    /\ environ = BaseEnviron
    /\ classifier = from_strings(<<>>, <<>>)
    /\ catalog = <<>>
    /\ calls = [t \in Tasks |-> IdleCall]
    /\ auditLog = <<>>
    /\ auditTrail = <<>>
    /\ clock = 0

NextCompile ==
    \/ StartAllowOnly(1)
    \/ StartWithDeny(1)

SpecCompile == InitCompile /\ [][NextCompile]_vars

\* SpecSkip: a catalog built from a first file of up to MaxDefs lines, each
\* a definition or a line that defines nothing, and a second file; either
\* file may be missing.
lineNotAlias == <<"n","o","t"," ">> \o lineSafe
SkipLines ==
    {lineSafe, lineLl, lineLlEcho, <<>>, lineComment, lineBadName, lineUnquoted,
     lineMismatch, lineNotAlias}
SkipFirstFiles ==
    {MissingFile} \cup {File(ls) : ls \in UNION {[1..k -> SkipLines] : k \in 0..MaxDefs}}
SkipSecondFiles == {MissingFile, File(<<lineQ>>), File(<<lineBadName, lineDanger, lineLl>>)}

InitSkip ==
    /\ config = CatalogConfig
    /\ aliasFiles \in {("f1" :> a) @@ ("f2" :> b) : a \in SkipFirstFiles, b \in SkipSecondFiles}
    /\ hostCommands \in {{}, {cmdLs}}
    /\ environ = BaseEnviron
    /\ classifier = from_strings(CatalogConfig.allow_patterns, <<>>)
    /\ catalog = <<>>
    /\ calls = [t \in Tasks |-> IdleCall]
    /\ auditLog = <<>>
    /\ auditTrail = <<>>
    /\ clock = 0

NextSkip == BuildCatalog

SpecSkip == InitSkip /\ [][NextSkip]_vars

(***************************************************************************)
(* Properties of the server specification.                                 *)
(***************************************************************************)
InFlight(c) == c.pc \in {"spawning", "running", "draining"}

\* C1: a subprocess is spawned for a call only if the call has dry_run=false
\* and confirm=true and the alias it resolved is safe; a call with
\* dry_run=false and no confirm fails with the policy error, a call with
\* dry_run=false on an unsafe alias fails, and neither spawns a process.
C1_SpawnOnlyConfirmedSafe ==
    \A t \in Tasks :
        LET c == calls[t]
        IN  /\ (c.spawned \/ InFlight(c)) =>
                  /\ ~c.req.dry_run
                  /\ c.req.confirm
                  /\ c.alias.some
                  /\ c.alias.val.safe
            /\ (c.pc # "idle" /\ ~c.req.dry_run /\ ~c.req.confirm) =>
                  /\ c.pc = "done"
                  /\ c.outcome = Raised("ToolError", "confirm required")
                  /\ ~c.spawned
            /\ (c.pc # "idle" /\ ~c.req.dry_run /\ c.alias.some /\ ~c.alias.val.safe) =>
                  /\ c.pc = "done"
                  /\ c.outcome.kind = "error"
                  /\ ~c.spawned

C1_Witness ==
    \E t \in Tasks :
        /\ calls[t].pc = "done"
        /\ calls[t].spawned
        /\ calls[t].outcome.kind = "payload"
        /\ calls[t].alias.val.name = nmSafe

\* the audit line a call writes for its ExecutionResult, written independently
\* of the logger: the entry's fields in order, none of them holding a secret
ExpectedEntry(c, stamp) ==
    [timestamp |-> stamp,
     alias |-> c.alias.val.name,
     safe |-> c.alias.val.safe,
     args |-> IF c.args.kind = "str" THEN c.args.text ELSE <<>>,
     cwd |-> PathStr(c.result.val.cwd),
     command |-> c.result.val.command,
     exitCode |-> c.result.val.exit_code,
     timedOut |-> c.result.val.timed_out,
     dryRun |-> c.result.val.dry_run]

\* C8: in every step in which a call obtains its ExecutionResult (dry run,
\* completed or timed out) exactly one line, the AuditEntry of that call, is
\* appended to the audit log, and the payload is returned only with that
\* line in the log (if the append raises an I/O error the call raises
\* instead and the log is unchanged); in every step the old log is a prefix
\* of the new one, and the log grows in no other step.
C8_OneLinePerResultAppendOnly ==
    [][ /\ IsPrefixOf(auditLog, auditLog')
        /\ Len(auditLog') <= Len(auditLog) + 1
        /\ \A t \in Tasks :
              LET c == calls'[t]
              IN  /\ (c.result.some /\ ~calls[t].result.some) =>
                        \/ /\ Len(auditLog') = Len(auditLog) + 1
                           /\ auditTrail'[Len(auditLog')] =
                                 [task |-> t, entry |-> ExpectedEntry(c, IntStr(clock))]
                           /\ auditLog'[Len(auditLog')] =
                                 JsonDumps(auditTrail'[Len(auditLog')].entry)
                           /\ c.logged = 1
                           /\ c.outcome.kind = "payload"
                        \/ /\ auditLog' = auditLog
                           /\ c.logged = 0
                           /\ c.outcome = Raised("OSError", "audit log")
                  /\ (c.outcome.kind = "payload" /\ calls[t].outcome.kind # "payload") =>
                        /\ Len(auditLog') = Len(auditLog) + 1
                        /\ ~calls[t].result.some
        /\ auditLog' # auditLog =>
              \E t \in Tasks : calls'[t].result.some /\ ~calls[t].result.some
      ]_vars

C8_Witness ==
    /\ Len(auditLog) = 2
    /\ auditTrail[1].entry.dryRun
    /\ ~auditTrail[2].entry.dryRun
    /\ auditTrail[2].entry.timedOut
    /\ \E t \in Tasks : calls[t].pc = "done" /\ calls[t].logged = 1

(***************************************************************************)
(* Properties of one call (SpecCall).                                      *)
(***************************************************************************)
\* execute_alias was entered by the call: it has assembled the command and
\* resolved the working directory
Executed(c) == c.cwd.some

InsideSomeRoot(path, cfg) ==
    \E i \in 1..Len(cfg.allow_cwd_roots) :
        IsPrefixOf(resolve(expanduser(cfg.allow_cwd_roots[i])).parts, path.parts)

IsDryRunReport(c) ==
    /\ c.result.some
    /\ c.result.val.dry_run
    /\ c.result.val.exit_code = Nothing
    /\ ~c.result.val.timed_out
    /\ ~c.result.val.truncated_stdout
    /\ ~c.result.val.truncated_stderr
    /\ c.result.val.stderr = <<>>
    /\ c.result.val.command = c.command
    /\ c.result.val.cwd = c.cwd.val
    /\ Contains(c.result.val.stdout, <<Backtick>> \o c.command \o <<Backtick>>)
    /\ Contains(c.result.val.stdout, <<" ", "i", "n", " ">> \o PathStr(c.cwd.val))

\* C3 as stated: every dry-run execution, whatever its alias, args, cwd and
\* timeout override, spawns no process and reports dry_run=true, exit_code
\* null, timed_out=false, no truncation, empty stderr and the stdout line.
C3_DryRunAlwaysReports ==
    \A t \in Tasks :
        LET c == calls[t]
        IN  (c.req.dry_run /\ Executed(c)) =>
                /\ ~c.spawned
                /\ ~InFlight(c)
                /\ IsDryRunReport(c)

\* C3 (amended): a dry-run execution never spawns a process; when its
\* requested cwd is absent or inside an allow-root it reports dry_run=true,
\* exit_code null, timed_out=false, no truncation, empty stderr and the
\* stdout line naming the command and the directory; when the requested cwd
\* is outside every allow-root it fails with CwdNotAllowed and reports nothing.
C3_DryRunReportsUnlessCwdRefused ==
    \A t \in Tasks :
        LET c == calls[t]
        IN  /\ c.req.dry_run => ~c.spawned /\ ~InFlight(c)
            /\ (c.req.dry_run /\ Executed(c)) =>
                  IF ~c.req.cwd.some \/ InsideSomeRoot(c.cwd.val, config)
                  THEN IsDryRunReport(c)
                  ELSE /\ ~c.result.some
                       /\ c.outcome = Raised("ToolError", "CwdNotAllowedError")

C3_Witness ==
    \E t \in Tasks :
        /\ calls[t].req.dry_run
        /\ calls[t].pc = "done"
        /\ calls[t].alias.some
        /\ ~calls[t].alias.val.safe
        /\ calls[t].req.cwd.some
        /\ calls[t].req.args.kind = "str"
        /\ calls[t].req.timeout_seconds.some
        /\ calls[t].outcome.kind = "payload"
        /\ calls[t].outcome.payload.dryRun

\* C4: a real execution that does not finish before the timeout is killed,
\* the output of the second communicate() is returned, and the result is a
\* normal ExecutionResult with timed_out=true and exit_code null whatever the
\* return code of the killed process; an execution that finishes in time
\* has timed_out=false and exit_code equal to the return code.
C4_TimeoutIsAResult ==
    \A t \in Tasks :
        LET c == calls[t]
            cfg == config.execution
        IN  /\ c.pc = "draining" => c.killed /\ c.spawned
            /\ (c.pc = "done" /\ c.killed) =>
                  /\ c.result.some
                  /\ c.result.val.timed_out
                  /\ c.result.val.exit_code = Nothing
                  /\ ~c.result.val.dry_run
                  /\ c.outcome.kind = "payload" \/ c.outcome = Raised("OSError", "audit log")
                  /\ c.outcome.kind = "payload" =>
                        /\ c.outcome.payload.timedOut
                        /\ c.outcome.payload.exitCode = Nothing
                  /\ c.stdout_bytes # <<>> /\ cfg.max_stdout_bytes > 0 =>
                        c.result.val.stdout # <<>>
                  /\ c.stderr_bytes # <<>> /\ cfg.max_stderr_bytes > 0 =>
                        c.result.val.stderr # <<>>
            /\ (c.pc = "done" /\ c.spawned /\ ~c.killed /\ c.result.some) =>
                  /\ ~c.result.val.timed_out
                  /\ c.result.val.exit_code = c.returncode
                  /\ c.returncode.some
            /\ (c.result.some /\ c.result.val.timed_out) => c.killed

C4_Witness ==
    \E t \in Tasks :
        /\ calls[t].pc = "done"
        /\ calls[t].killed
        /\ calls[t].returncode = Some(0 - 9)
        /\ calls[t].stdout_bytes # <<>>
        /\ calls[t].outcome.kind = "payload"

TimeoutReasons == {"timeout must be positive", "timeout exceeds maximum"}

\* C5 as stated: a call fails whenever timeout_seconds is given and is
\* non-positive or greater than 5 x D, for every configured default D, and
\* does not fail on timeout grounds when it is absent or in 1..5 x D.
C5_TimeoutBoundFiveTimesDefault ==
    \A t \in Tasks :
        LET c == calls[t]
            ts == c.req.timeout_seconds
            D == config.execution.default_timeout_seconds
        IN  c.pc # "idle" =>
              /\ (ts.some /\ (ts.val <= 0 \/ ts.val > 5 * D)) =>
                    c.pc = "done" /\ c.outcome.kind = "error"
              /\ (~ts.some \/ (1 <= ts.val /\ ts.val <= 5 * D)) =>
                    ~(c.outcome.kind = "error" /\ c.outcome.reason \in TimeoutReasons)

\* C5 (amended): a call fails whenever timeout_seconds is given and is
\* non-positive or greater than 5 x max(D, 1), and does not fail on timeout
\* grounds when it is absent or in 1..5 x max(D, 1).
C5_TimeoutBoundFiveTimesAtLeastOne ==
    \A t \in Tasks :
        LET c == calls[t]
            ts == c.req.timeout_seconds
            D == config.execution.default_timeout_seconds
            bound == IF D >= 1 THEN 5 * D ELSE 5
        IN  c.pc # "idle" =>
              /\ (ts.some /\ (ts.val <= 0 \/ ts.val > bound)) =>
                    /\ c.pc = "done"
                    /\ c.outcome.kind = "error"
                    /\ ~c.spawned
              /\ (~ts.some \/ (1 <= ts.val /\ ts.val <= bound)) =>
                    ~(c.outcome.kind = "error" /\ c.outcome.reason \in TimeoutReasons)

C5_Witness ==
    \E t \in Tasks :
        /\ config.execution.default_timeout_seconds = 0
        /\ calls[t].req.timeout_seconds = Some(5)
        /\ calls[t].spawned
        /\ calls[t].outcome.kind = "payload"

(***************************************************************************)
(* Properties of the working directory (SpecCwd).                          *)
(***************************************************************************)
\* a canonical absolute path: no ".." or "~" segment and no symbolic link on
\* the way
Canonical(p) ==
    /\ p.abs
    /\ \A i \in 1..Len(p.parts) :
          /\ p.parts[i] \notin {segUp, segTilde}
          /\ SubSeq(p.parts, 1, i) \notin DOMAIN Symlinks

\* path is root itself or lies below it
EqualOrDescendant(path, root) ==
    /\ Len(root.parts) <= Len(path.parts)
    /\ \A i \in 1..Len(root.parts) : path.parts[i] = root.parts[i]

CanonicalRoots(cfg) ==
    {resolve(expanduser(cfg.allow_cwd_roots[i])) : i \in 1..Len(cfg.allow_cwd_roots)}

\* C2: a call that reaches execute_alias with a requested directory either
\* runs in the canonical absolute form of that directory, which is then
\* equal to or a descendant of a canonicalized allow-root, or fails with
\* CwdNotAllowed without a subprocess ever being spawned; it is accepted
\* exactly when the canonical path is inside a root.
C2_CwdInsideCanonicalRoot ==
    \A t \in Tasks :
        LET c == calls[t]
        IN  (Executed(c) /\ c.req.cwd.some) =>
               LET canon == resolve(expanduser(c.req.cwd.val))
                   inside == \E root \in CanonicalRoots(config) :
                                EqualOrDescendant(canon, root)
               IN  /\ Canonical(canon)
                   /\ \A root \in CanonicalRoots(config) : Canonical(root)
                   /\ c.cwd.val = canon
                   /\ inside =>
                         /\ c.outcome.kind # "error"
                               \/ c.outcome.type = "OSError"
                         /\ c.result.some => c.result.val.cwd = canon
                         /\ c.env.some => c.env.val["PWD"] = PathStr(canon)
                   /\ ~inside =>
                         /\ c.outcome = Raised("ToolError", "CwdNotAllowedError")
                         /\ ~c.spawned
                         /\ ~InFlight(c)
                         /\ ~c.result.some

\* a real call whose requested path lies, as written, below the root /h but
\* leads through a symbolic link to /etc has been refused
C2_Witness ==
    \E t \in Tasks :
        LET c == calls[t]
        IN  /\ config.allow_cwd_roots = <<HomePath>>
            /\ c.req.cwd = Some(AbsPath(<<segHome, segOut>>))
            /\ ~c.req.dry_run
            /\ c.cwd = Some(AbsPath(<<segEtc>>))
            /\ c.outcome = Raised("ToolError", "CwdNotAllowedError")

(***************************************************************************)
(* Properties of output capture (SpecTrunc).                               *)
(***************************************************************************)
\* what the claim says of one stream: the flag is set iff more than limit
\* bytes were captured, the text is then the decoding of the first limit
\* bytes and has at most limit characters, and otherwise the decoding of all
StreamAsCaptured(data, limit, text, truncated) ==
    /\ truncated <=> Len(data) > limit
    /\ truncated =>
          /\ text = Utf8DecodeReplace([i \in 1..limit |-> data[i]])
          /\ Len(text) <= limit
    /\ ~truncated => text = Utf8DecodeReplace(data)

\* C6: in the result of every call that ran a process, stdout is cut by the
\* stdout limit and stderr by the stderr limit, each by its own limit only:
\* the truncated flag is true iff the stream has more bytes than its limit,
\* the text is then the decoding of exactly the first limit bytes, and
\* otherwise (a stream of exactly limit bytes included) of all the bytes.
C6_EachStreamCutAtItsLimit ==
    \A t \in Tasks :
        LET c == calls[t]
        IN  (c.result.some /\ ~c.result.val.dry_run) =>
               /\ StreamAsCaptured(c.stdout_bytes, config.execution.max_stdout_bytes,
                                   c.result.val.stdout, c.result.val.truncated_stdout)
               /\ StreamAsCaptured(c.stderr_bytes, config.execution.max_stderr_bytes,
                                   c.result.val.stderr, c.result.val.truncated_stderr)

\* stdout of exactly limit bytes is returned whole while stderr, longer than
\* its own smaller limit, is cut to that limit
C6_Witness ==
    \E t \in Tasks :
        LET c == calls[t]
        IN  /\ c.outcome.kind = "payload"
            /\ config.execution.max_stdout_bytes = 2
            /\ c.stdout_bytes = <<ByteLead, ByteCont>>
            /\ ~c.outcome.payload.truncated.stdout
            /\ c.outcome.payload.stdout = <<"U+00E9">>
            /\ config.execution.max_stderr_bytes = 1
            /\ Len(c.stderr_bytes) = MaxBytes
            /\ c.outcome.payload.truncated.stderr
            /\ c.outcome.payload.stderr = <<"a">>

(***************************************************************************)
(* Properties of the command's environment (SpecEnv).                      *)
(***************************************************************************)
ChildKeys ==
    {"PATH", "LANG", "LC_ALL", "HOME", "PWD", "LC_CTYPE", "LC_NUMERIC", "LANGUAGE"}

LocaleKeys == {"LANG", "LC_ALL", "LC_CTYPE", "LC_NUMERIC", "LANGUAGE"}

AgreeOn(e1, e2, keys) ==
    \A k \in keys :
        /\ k \in DOMAIN e1 <=> k \in DOMAIN e2
        /\ k \in DOMAIN e1 => e1[k] = e2[k]

\* C7: the environment given to a spawned command has keys among PATH, LANG,
\* LC_ALL, HOME, PWD, LC_CTYPE, LC_NUMERIC and LANGUAGE only, with PATH the
\* fixed value, HOME the configured default directory and PWD the resolved
\* cwd; and two commands spawned in the same directory under host
\* environments that agree on LANG, LC_ALL, LC_CTYPE, LC_NUMERIC and LANGUAGE
\* get identical environments, whatever else the host environments hold.
C7_ChildEnvFromLocaleOnly ==
    /\ \A t \in Tasks :
          LET c == calls[t]
          IN  c.env.some =>
                 /\ DOMAIN c.env.val \subseteq ChildKeys
                 /\ c.env.val["PATH"] = "/usr/bin:/bin"
                 /\ c.env.val["HOME"] = PathStr(config.default_cwd)
                 /\ c.env.val["PWD"] = PathStr(c.cwd.val)
    /\ \A t1 \in Tasks, t2 \in Tasks :
          (/\ calls[t1].env.some
           /\ calls[t2].env.some
           /\ calls[t1].cwd = calls[t2].cwd
           /\ AgreeOn(calls[t1].base_env.val, calls[t2].base_env.val, LocaleKeys))
          => calls[t1].env.val = calls[t2].env.val

\* two commands running at once in the same directory, one spawned under a
\* host environment holding a credential and its own PATH and HOME, the other
\* under one without them, with the same environment
C7_Witness ==
    /\ calls[1].spawned /\ calls[2].spawned
    /\ calls[1].cwd = calls[2].cwd
    /\ "AWS_SECRET_ACCESS_KEY" \in DOMAIN calls[1].base_env.val
    /\ "AWS_SECRET_ACCESS_KEY" \notin DOMAIN calls[2].base_env.val
    /\ "LC_CTYPE" \in DOMAIN calls[1].env.val
    /\ calls[1].env.val = calls[2].env.val

(***************************************************************************)
(* Properties of the audit line (SpecAudit).                               *)
(***************************************************************************)
UpperOf ==
    [t |-> "T", o |-> "O", k |-> "K", e |-> "E", n |-> "N", s |-> "S",
     c |-> "C", r |-> "R", p |-> "P", a |-> "A", w |-> "W", d |-> "D"]

\* the keyword kw, in any mix of cases, stands in text at position i
OccursAt(kw, text, i) ==
    /\ i + Len(kw) - 1 <= Len(text)
    /\ \A j \in 1..Len(kw) : text[i + j - 1] \in {kw[j], UpperOf[kw[j]]}

KeywordStarts(text) ==
    {i \in 1..Len(text) : \E kw \in {kwToken, kwSecret, kwPassword} : OccursAt(kw, text, i)}

\* a word (a run without whitespace) with its first keyword and everything
\* behind it replaced by the marker
RedactedWord(word) ==
    IF KeywordStarts(word) = {} THEN word
    ELSE LET first == CHOOSE i \in KeywordStarts(word) :
                         \A j \in KeywordStarts(word) : i <= j
         IN  SubSeq(word, 1, first - 1) \o <<"<","r","e","d","a","c","t","e","d",">">>

WordEnd(text) ==
    IF \E i \in 1..Len(text) : text[i] \in {" ", "\t", "\n"}
    THEN (CHOOSE i \in 1..Len(text) :
             /\ text[i] \in {" ", "\t", "\n"}
             /\ \A j \in 1..(i - 1) : text[j] \notin {" ", "\t", "\n"}) - 1
    ELSE Len(text)

\* a text with every keyword occurrence and the run of non-whitespace
\* characters behind it replaced, word by word
RECURSIVE RedactedText(_)
RedactedText(text) ==
    IF text = <<>> THEN <<>>
    ELSE IF WordEnd(text) = 0 THEN <<Head(text)>> \o RedactedText(Tail(text))
    ELSE RedactedWord(SubSeq(text, 1, WordEnd(text)))
            \o RedactedText(SubSeq(text, WordEnd(text) + 1, Len(text)))

\* the line of call c, written at the time stamp
ExpectedLine(c, stamp) ==
    LET e == ExpectedEntry(c, stamp)
    IN  JsonDumps([f \in DOMAIN e |->
                      IF f \in {"alias", "args", "cwd", "command", "timestamp"}
                      THEN RedactedText(e[f]) ELSE e[f]])

\* C9: the line persisted for a call carries, in each of its string fields
\* alias, args, cwd, command and timestamp, the field's text with every
\* occurrence of token, secret or password in any mix of cases, together
\* with the run of non-whitespace characters behind it, replaced by
\* <redacted>; so no line holds a keyword, nor the values abcd and hunter2
\* that stand behind token= and password= in the args.
C9_AuditLineRedacted ==
    \A t \in Tasks :
        LET c == calls[t]
        IN  c.logged = 1 =>
               LET line == auditLog[Len(auditLog)]
               IN  /\ line = ExpectedLine(c, auditTrail[Len(auditLog)].entry.timestamp)
                   /\ KeywordStarts(line) = {}
                   /\ ~Contains(line, <<"a","b","c","d">>)
                   /\ ~Contains(line, <<"h","u","n","t","e","r","2">>)

\* the line of a call with args "token=abcd password=hunter2", run under an
\* alias and in a directory whose names hold a keyword
C9_Witness ==
    \E t \in Tasks :
        LET c == calls[t]
        IN  /\ c.logged = 1
            /\ c.req.args = StrArgs(fragTokenValue \o <<" ">> \o fragPasswordValue)
            /\ c.req.name = nmMyToken
            /\ c.req.cwd.some
            /\ ~c.req.dry_run
            /\ Contains(auditLog[1],
                        <<"<","r","e","d","a","c","t","e","d",">"," ",
                          "<","r","e","d","a","c","t","e","d",">">>)
            /\ Contains(auditLog[1], <<"/","h","/","p","/","<","r","e","d">>)

(***************************************************************************)
(* Properties of the catalog (SpecCatalog).                                *)
(***************************************************************************)
\* the definitions of name in the order build_catalog meets them
RECURSIVE OnlyName(_, _)
OnlyName(parsed, name) ==
    IF parsed = <<>> THEN <<>>
    ELSE IF Head(parsed).name = name
    THEN <<Head(parsed)>> \o OnlyName(Tail(parsed), name)
    ELSE OnlyName(Tail(parsed), name)

DefinitionsOf(name) ==
    OnlyName(Flatten([i \in 1..Len(config.alias_files) |->
                         _parse_file(config.alias_files[i], classifier)]), name)

\* whether the head command of an expansion is available on the host;
\* an expansion that cannot be tokenized, or is empty, has none
HeadAvailable(expansion) ==
    CASE expansion = expLs -> cmdLs \in hostCommands
      [] expansion = expGls -> cmdGls \in hostCommands
      [] expansion = expFoo -> cmdFoo \in hostCommands
      [] expansion = expEchoHi -> TRUE
      [] expansion = expUnclosed -> FALSE
      [] expansion = <<>> -> FALSE

\* the last definition with an available head command if there is one, else
\* the last definition
Preferred(defs) ==
    LET avail == {i \in 1..Len(defs) : HeadAvailable(defs[i].expansion)}
    IN  IF avail = {} THEN defs[Len(defs)]
        ELSE defs[CHOOSE i \in avail : \A j \in avail : j <= i]

\* C10: once the catalog is built, the entry of a name defined several times
\* over the ordered files is the last definition whose head command is
\* available, if any definition's is, and the last definition otherwise
\* (each later definition having replaced the current one iff its head
\* command is available or neither's is); an expansion that cannot be
\* tokenized counts as unavailable; a name never defined has no entry.
C10_LastAvailableElseLast ==
    clock = 1 =>
       \A name \in {nmLl, nmSafe} :
           LET defs == DefinitionsOf(name)
           IN  IF defs = <<>> THEN CatalogGet(catalog, name) = Nothing
               ELSE CatalogGet(catalog, name) = Some(Preferred(defs))

\* ll is defined three times: with ls (installed) in the first file, then
\* with gls (not installed) and with an expansion that cannot be tokenized
\* in the second; the catalog keeps the first
C10_Witness ==
    /\ clock = 1
    /\ hostCommands = {cmdLs}
    /\ aliasFiles["f1"].lines = <<DefLine(nmLl, "'", expLs)>>
    /\ aliasFiles["f2"].lines = <<DefLine(nmLl, "'", expGls), DefLine(nmLl, "'", expUnclosed)>>
    /\ CatalogGet(catalog, nmLl).val.expansion = expLs
    /\ CatalogGet(catalog, nmLl).val.source_file = "f1"

(***************************************************************************)
(* Properties of the catalog under reload (SpecReload).                    *)
(***************************************************************************)
\* the definition lines of the alias files: the line as written, the name on
\* it, its quoted body with the escapes of its own quote undone, and the
\* verdict of the classifier (allow ^echo, deny ^rm) on that expansion
DefinitionLines ==
    {[line |-> lineSafe, name |-> nmSafe, expansion |-> expEchoHello, safe |-> TRUE],
     [line |-> lineSafeRm, name |-> nmSafe, expansion |-> expRmRf, safe |-> FALSE],
     [line |-> lineDanger, name |-> nmDanger, expansion |-> expRmRf, safe |-> FALSE],
     [line |-> lineSp, name |-> nmSp,
      expansion |-> <<"e","c","h","o"," ","'","x","'">>, safe |-> TRUE],
     [line |-> lineQ, name |-> nmQ,
      expansion |-> <<"e","c","h","o"," ","\"","h","i","\"">>, safe |-> TRUE],
     [line |-> lineQRm, name |-> nmQ,
      expansion |-> <<"r","m"," ","\\","'","x">>, safe |-> FALSE],
     [line |-> lineLl, name |-> nmLl, expansion |-> expLs, safe |-> FALSE],
     [line |-> lineLlEcho, name |-> nmLl, expansion |-> expEchoHi, safe |-> TRUE]}

\* every alias of cat is what one definition line of its source file says,
\* and sits in cat alone under its name
EntriesAsDefined(cat, files) ==
    /\ \A i \in 1..Len(cat) :
          /\ \E d \in DefinitionLines :
                /\ files[cat[i].source_file].exists
                /\ \E k \in 1..Len(files[cat[i].source_file].lines) :
                      files[cat[i].source_file].lines[k] = d.line
                /\ cat[i].name = d.name
                /\ cat[i].expansion = d.expansion
                /\ cat[i].safe = d.safe
          /\ cat[i].safe = is_safe(classifier, cat[i].expansion)
          /\ CatalogGet(cat, cat[i].name) = Some(cat[i])
    /\ \A i \in 1..Len(cat), j \in 1..Len(cat) : cat[i].name = cat[j].name => i = j

\* C11: the catalog built at start, and the catalog every refresh installs,
\* holds only aliases whose name is the name on a definition line of their
\* source file (and their key in the catalog), whose expansion is that
\* line's quoted body with the quote-escapes undone, and whose safe flag is
\* the classifier's verdict on that expansion.
C11_EntriesAsDefined ==
    /\ EntriesAsDefined(catalog, aliasFiles)
    /\ [][catalog' # catalog => EntriesAsDefined(catalog', aliasFiles')]_vars

\* after an edit and a refresh the catalog holds q with the escaped double
\* quotes undone and sp, written with blanks around it, with the escaped
\* single quotes undone
C11_Witness ==
    /\ clock > 0
    /\ config.enable_hot_reload
    /\ aliasFiles = ReloadV1
    /\ calls[1].pc = "done"
    /\ CatalogGet(catalog, nmQ).some
    /\ CatalogGet(catalog, nmQ).val.expansion = <<"e","c","h","o"," ","\"","h","i","\"">>
    /\ CatalogGet(catalog, nmSp).some
    /\ CatalogGet(catalog, nmSp).val.expansion = <<"e","c","h","o"," ","'","x","'">>
    /\ ~CatalogGet(catalog, nmBadName).some
    /\ Len(catalog) = 5

(***************************************************************************)
(* Properties of the classifier (SpecSafety).                              *)
(***************************************************************************)
\* the word of the pattern is written in the text from position at on
WrittenAt(word, text, at) ==
    /\ at + Len(word) - 1 <= Len(text)
    /\ \A k \in 1..Len(word) : text[at + k - 1] = word[k]

\* the pattern matches somewhere in the text ("^" pins the place to the start)
MatchesSomewhere(pattern, text) ==
    \E at \in 1..(Len(text) + 1) :
        /\ pattern.anchored => at = 1
        /\ WrittenAt(pattern.word, text, at)

SafeByDefinition(cls, text) ==
    /\ \A i \in 1..Len(cls.deny_patterns) : ~MatchesSomewhere(cls.deny_patterns[i], text)
    /\ \E i \in 1..Len(cls.allow_patterns) : MatchesSomewhere(cls.allow_patterns[i], text)

\* C12: is_safe(expansion) is true exactly when no deny pattern of the
\* classifier matches anywhere in the expansion and at least one allow
\* pattern does; so a deny match wins over an allow match, and an empty
\* allow list makes everything unsafe.  The safe flag of every alias of the
\* catalog is that verdict.
C12_SafeIffNoDenyAndSomeAllow ==
    /\ \A e \in SafetyExpansions : is_safe(classifier, e) <=> SafeByDefinition(classifier, e)
    /\ \A i \in 1..Len(catalog) :
          catalog[i].safe <=> SafeByDefinition(classifier, catalog[i].expansion)
    /\ classifier.allow_patterns = <<>> =>
          \A i \in 1..Len(catalog) : ~catalog[i].safe

\* a listed catalog where "echo rm" matches an allow and a deny pattern and
\* is unsafe, while "echo hello" matches the allow pattern only and is safe
C12_Witness ==
    /\ calls[1].outcome.kind = "aliases"
    /\ classifier.allow_patterns = <<Anchored(wordEcho)>>
    /\ classifier.deny_patterns = <<Anywhere(wordRm)>>
    /\ \E i \in 1..Len(catalog) : catalog[i].expansion = expEchoRm /\ ~catalog[i].safe
    /\ \E i \in 1..Len(catalog) : catalog[i].expansion = expEchoHello /\ catalog[i].safe

(***************************************************************************)
(* Properties of the refresh under interleaving (SpecSwap).                *)
(***************************************************************************)
\* what one version of one alias file defines
FileEntries(version, file) ==
    Flatten([i \in 1..Len(version[file].lines) |->
                ParseLine(version[file].lines[i], file, classifier)])

\* the complete catalogs: all of f1 as some version has it, then all of f2 as
\* some version has it (the files may be edited between the two reads)
WholeCatalogs ==
    {FileEntries(va, "f1") \o FileEntries(vb, "f2") : va \in SwapVersions, vb \in SwapVersions}

\* C13: the runtime's catalog, and the catalog every reader got, is at every
\* moment a complete catalog (never the part built so far), and the catalog a
\* reader holds does not change while it holds it, whatever refreshes run.
C13_BuildThenSwap ==
    /\ [](/\ catalog \in WholeCatalogs
          /\ \A t \in Tasks : calls[t].seen.some => calls[t].seen.val \in WholeCatalogs)
    /\ [][\A t \in Tasks :
            (calls[t].seen.some /\ calls'[t].seen.some) => calls'[t].seen = calls[t].seen]_vars

\* one caller still holds the catalog it read while a refresh of the other
\* caller has put a different one in place and that caller has read it
C13_Witness ==
    /\ calls[1].pc = "done" /\ calls[1].seen.some
    /\ calls[2].pc = "done" /\ calls[2].seen.some
    /\ calls[2].seen.val = catalog
    /\ calls[1].seen.val # catalog
    /\ ~calls[1].held /\ calls[2].held

(***************************************************************************)
(* Properties of hot reload (SpecReload).                                  *)
(***************************************************************************)
\* the aliases each version of the two alias files defines, later
\* definitions taking the place of earlier ones of the same name
CatalogOfVersion(files) ==
    IF files = ReloadV1
    THEN <<Alias(nmSafe, expEchoHello, TRUE, "f1"),
           Alias(nmSp, <<"e","c","h","o"," ","'","x","'">>, TRUE, "f1"),
           Alias(nmDanger, expRmRf, FALSE, "f1"),
           Alias(nmLl, expLs, FALSE, "f2"),
           Alias(nmQ, <<"e","c","h","o"," ","\"","h","i","\"">>, TRUE, "f2")>>
    ELSE IF files = ReloadV2
    THEN <<Alias(nmSafe, expEchoHello, TRUE, "f2"),
           Alias(nmQ, bodyRmOtherEsc, FALSE, "f2"),
           Alias(nmLl, expEchoHi, TRUE, "f2")>>
    ELSE <<Alias(nmLl, expEchoHi, TRUE, "f2")>>

IsListCall(t) == calls[t].pc = "idle" /\ calls'[t].outcome.kind = "aliases"
\* an alias.exec call that got as far as get_alias
IsGetCall(t) ==
    /\ calls[t].pc = "idle"
    /\ calls'[t].pc # "idle"
    /\ calls'[t].outcome.kind # "aliases"
    /\ calls'[t].req.dry_run \/ calls'[t].req.confirm

NamedIn(cat, name) == {i \in 1..Len(cat) : cat[i].name = name}

\* C14: with hot reload on, a list_aliases call answers with the aliases the
\* files define at that moment and a get_alias call finds (or misses) the
\* name as the files have it at that moment; with hot reload off no step
\* changes the catalog.
C14_ReloadFollowsFilesOrNothingChanges ==
    [][/\ (config.enable_hot_reload /\ IsListCall(1)) =>
             /\ calls'[1].outcome.aliases = CatalogOfVersion(aliasFiles)
             /\ catalog' = CatalogOfVersion(aliasFiles)
       /\ (config.enable_hot_reload /\ IsGetCall(1)) =>
             LET now == CatalogOfVersion(aliasFiles)
                 at == NamedIn(now, calls'[1].req.name)
             IN  /\ catalog' = now
                 /\ at = {} => calls'[1].outcome = Raised("ToolError", "AliasNotFoundError")
                 /\ \A i \in at : calls'[1].alias = Some(now[i])
       /\ ~config.enable_hot_reload => catalog' = catalog]_vars

\* with the files at version 2, a dry run of q is answered with the
\* definition of q that version 2 has in f2, which replaces the one in f1
C14_Witness ==
    /\ config.enable_hot_reload
    /\ aliasFiles = ReloadV2
    /\ calls[1].pc = "done"
    /\ calls[1].req.name = nmQ
    /\ calls[1].alias = Some(Alias(nmQ, bodyRmOtherEsc, FALSE, "f2"))
    /\ catalog = CatalogOfVersion(ReloadV2)

(***************************************************************************)
(* Properties of the audit file under concurrent calls (SpecEnv).          *)
(***************************************************************************)
CountOf(ch, text) == Cardinality({i \in 1..Len(text) : text[i] = ch})

\* the text between the first and the last character is key:value pairs of
\* the audit keys, each key once, in one pair of braces, on one line
OneCompleteObject(line) ==
    /\ Len(line) >= 2
    /\ line[1] = "{" /\ line[Len(line)] = "}"
    /\ CountOf("{", line) = 1 /\ CountOf("}", line) = 1
    /\ CountOf("\n", line) = 0
    /\ CountOf("\"", line) % 2 = 0
    /\ \A k \in DOMAIN KeyText :
          Cardinality({i \in 1..Len(line) :
              WrittenAt(<<"\"">> \o KeyText[k] \o <<"\"", ":">>, line, i)}) = 1

\* C15: with several calls finishing in any order, every line of the audit
\* file is one complete entry object, the entry of exactly one call, and
\* every call that logged has exactly one line.
C15_EveryLineOneCompleteEntry ==
    /\ Len(auditLog) = Len(auditTrail)
    /\ \A i \in 1..Len(auditLog) :
          /\ OneCompleteObject(auditLog[i])
          /\ auditLog[i] = JsonDumps(_redact(auditTrail[i].entry))
    /\ \A t \in Tasks :
          Cardinality({i \in 1..Len(auditTrail) : auditTrail[i].task = t}) = calls[t].logged

\* both calls have logged, the call of task 2 first and the call of task 1,
\* which ran into its timeout, after it
C15_Witness ==
    /\ Len(auditLog) = 2
    /\ calls[1].logged = 1 /\ calls[2].logged = 1
    /\ auditTrail[1].task = 2 /\ auditTrail[2].task = 1
    /\ auditTrail[2].entry.timedOut /\ ~auditTrail[1].entry.timedOut

(***************************************************************************)
(* Properties of a failing audit log (SpecCall).                           *)
(***************************************************************************)
\* C16: a call whose execution produced a result answers with the payload
\* only if its audit line was appended; when creating the directory or
\* appending fails, the call ends with that I/O error, no payload, and the
\* audit file as it was.
C16_AuditFailurePropagates ==
    \A t \in Tasks :
        LET c == calls[t]
        IN  /\ (c.pc = "done" /\ c.result.some) =>
                  IF c.logged = 1
                  THEN c.outcome.kind = "payload" /\ Len(auditLog) >= 1
                  ELSE c.outcome = Raised("OSError", "audit log")
            /\ c.outcome.kind = "payload" => c.logged = 1
            /\ c.outcome = Raised("OSError", "audit log") =>
                  c.result.some /\ c.logged = 0 /\ auditLog = <<>>

\* a real execution finished with a result, the append failed, and the call
\* ended with the I/O error
C16_Witness ==
    /\ calls[1].pc = "done"
    /\ calls[1].spawned
    /\ calls[1].result.some
    /\ ~calls[1].result.val.dry_run
    /\ calls[1].outcome = Raised("OSError", "audit log")
    /\ auditLog = <<>>

(***************************************************************************)
(* Properties of a failing spawn (SpecCall).                               *)
(***************************************************************************)
\* the call got as far as create_subprocess_exec and no process came of it
SpawnFailed(c) == c.pc = "done" /\ c.env.some /\ ~c.spawned

\* C17: a call whose subprocess could not be spawned ends with the
\* ExecutionFailure error kind and without a result, while a spawned process
\* that exits with a non-zero code gives a normal result with that exit code
\* and timed_out false.
C17_SpawnFailureIsExecutionFailure ==
    \A t \in Tasks :
        LET c == calls[t]
        IN  /\ SpawnFailed(c) =>
                  /\ c.outcome.kind = "error"
                  /\ c.outcome.type = "ExecutionFailure"
                  /\ ~c.result.some
            /\ (c.pc = "done" /\ c.spawned /\ ~c.killed /\ c.returncode = Some(1)) =>
                  /\ c.result.some
                  /\ c.result.val.exit_code = Some(1)
                  /\ ~c.result.val.timed_out

(***************************************************************************)
(* Termination of a real execution (SpecCallFair).                         *)
(***************************************************************************)
\* C18: every real execution whose process runs eventually has its
\* ExecutionResult: the wait ends at the timeout, and the drain after the
\* kill ends too, whether or not the pipes are ever closed.
C18_EveryExecutionReturns ==
    \A t \in Tasks : (calls[t].pc = "running") ~> calls[t].result.some

(***************************************************************************)
(* Properties of the assembled command (SpecCommand).                      *)
(***************************************************************************)
\* the text without the blanks at its two ends
Trimmed(text) ==
    LET inked == {i \in 1..Len(text) : text[i] \notin Whitespace}
    IN  IF inked = {} THEN <<>>
        ELSE LET lo == CHOOSE i \in inked : \A j \in inked : i <= j
                 hi == CHOOSE i \in inked : \A j \in inked : j <= i
             IN  [k \in 1..(hi - lo + 1) |-> text[lo + k - 1]]

RECURSIVE SpaceSeparated(_)
SpaceSeparated(tokens) ==
    IF Len(tokens) = 1 THEN tokens[1]
    ELSE tokens[1] \o <<" ">> \o SpaceSeparated(Tail(tokens))

CommandAsSpecified(expansion, args) ==
    IF args.kind = "none" THEN expansion
    ELSE IF args.kind = "str"
    THEN IF Trimmed(args.text) = <<>> THEN expansion
         ELSE expansion \o <<" ">> \o Trimmed(args.text)
    ELSE LET kept == SelectSeq(args.tokens, LAMBDA token : token # <<>>)
         IN  IF kept = <<>> THEN expansion
             ELSE expansion \o <<" ">> \o SpaceSeparated(kept)

\* C19: the command is the expansion alone when args is absent, trims to
\* nothing or holds no non-empty token; otherwise the expansion, one space,
\* and the trimmed text or the non-empty tokens joined by single spaces in
\* their order.  The expansion is always an unmodified prefix of it.
C19_CommandAssembly ==
    \A t \in Tasks :
        LET c == calls[t]
        IN  (c.pc = "done" /\ c.alias.some) =>
                /\ c.command = CommandAsSpecified(c.alias.val.expansion, c.args)
                /\ Len(c.command) >= Len(c.alias.val.expansion)
                /\ SubSeq(c.command, 1, Len(c.alias.val.expansion)) = c.alias.val.expansion
                /\ c.result.some /\ c.result.val.command = c.command

\* a sequence with an empty token between two others, on the alias whose
\* expansion ends in a blank
C19_Witness ==
    /\ calls[1].pc = "done"
    /\ calls[1].alias.some
    /\ calls[1].alias.val.expansion = expLsBlank
    /\ calls[1].args = ListArgs(<<<<"a", " ", "b">>, <<>>, <<"x">>>>)
    /\ calls[1].command = <<"l","s"," "," ","a"," ","b"," ","x">>

(***************************************************************************)
(* Properties of the loaded configuration (SpecConfig).                    *)
(***************************************************************************)
FileGives(k) ==
    /\ aliasFiles[ConfigFileName].exists
    /\ "execution" \in DOMAIN aliasFiles[ConfigFileName].mapping
    /\ k \in DOMAIN aliasFiles[ConfigFileName].mapping["execution"].items

EnvNameOf ==
    [max_stdout_bytes |-> EnvMaxStdout, max_stderr_bytes |-> EnvMaxStderr,
     default_timeout_seconds |-> EnvTimeout]

DefaultOf ==
    [max_stdout_bytes |-> DefaultMaxStdoutBytes, max_stderr_bytes |-> DefaultMaxStderrBytes,
     default_timeout_seconds |-> DefaultTimeoutSeconds]

\* the limit as the highest source that gives it has it
LimitByPrecedence(args, k) ==
    IF args[k].some THEN args[k].val
    ELSE IF EnvNameOf[k] \in DOMAIN environ THEN 2
    ELSE IF FileGives(k) THEN 1
    ELSE DefaultOf[k]

\* C20: after the load every execution limit has the value of the highest of
\* command line, environment, file and defaults that gives that limit; so a
\* command-line value for one limit leaves the other limits at what the
\* environment, the file or the defaults give them.
C20_PrecedencePerKey ==
    calls[1].pc = "done" =>
        \A k \in LimitKeys :
            config.execution[k] = LimitByPrecedence(calls[1].req, k)

(***************************************************************************)
(* Properties of the effective timeout (SpecTimeout).                      *)
(***************************************************************************)
\* C21: the timeout a real execution waits with is the override when one is
\* given and positive, and the configured default when the override is
\* absent, zero or negative.
C21_OverrideIfPositiveElseDefault ==
    \A t \in Tasks :
        LET c == calls[t]
            override == c.req.timeout_seconds
        IN  c.timeout.some =>
                c.timeout.val = IF override.some /\ override.val > 0
                                THEN override.val
                                ELSE config.execution.default_timeout_seconds

(***************************************************************************)
(* Properties of the names the catalog accepts (SpecNames).                *)
(***************************************************************************)
GrammarNameChars == LowerLetters \cup DOMAIN UpperCase \cup Digits \cup {"_", "-"}
OnlyOf(name, chars) == \A i \in 1..Len(name) : name[i] \in chars
HasOneOf(name, chars) == \E i \in 1..Len(name) : name[i] \in chars

\* the name n is written on the first line of the file, in some quote
FirstLineDefines(n) ==
    \E q \in QuoteChars : aliasFiles["f1"].lines[1] = DefLine(n, q, expEchoHi)

Entered(n) ==
    /\ CatalogGet(catalog, n).some
    /\ CatalogGet(catalog, n).val.expansion = expEchoHi

\* C22: after the build, the name on a definition line is in the catalog if
\* it consists only of letters, digits, underscores or hyphens, and it is
\* left out exactly when it holds whitespace, "!", "$", a backtick or a
\* backslash.
C22_GrammarNamesEntered ==
    clock = 1 =>
        \A n \in NamePool :
            FirstLineDefines(n) =>
                /\ OnlyOf(n, GrammarNameChars) => Entered(n)
                /\ ~Entered(n) <=> HasOneOf(n, Whitespace \cup {"!", "$", Backtick, "\\"})

\* C22, amended: the name on a definition line is in the catalog exactly
\* when it consists only of letters, digits and underscores; a name with a
\* hyphen is left out like one with whitespace, "!", "$", a backtick or a
\* backslash.
C22_NamesWithoutHyphenEntered ==
    clock = 1 =>
        \A n \in NamePool :
            FirstLineDefines(n) =>
                /\ Entered(n) <=> OnlyOf(n, GrammarNameChars \ {"-"})
                /\ ~Entered(n) <=>
                      HasOneOf(n, Whitespace \cup {"!", "$", Backtick, "\\", "-"})
                /\ CatalogGet(catalog, nmSafe).some

\* the built catalog of a file whose first line defines "a-": only the
\* second line's alias is in it
C22_Witness ==
    /\ clock = 1
    /\ FirstLineDefines(<<"a", "-">>)
    /\ Len(catalog) = 1
    /\ catalog[1].name = nmSafe

(***************************************************************************)
(* Properties of pattern compilation (SpecCompile).                        *)
(***************************************************************************)
\* the verdict of the valid patterns among the configured ones
SafeByValidPatterns(allow, deny, text) ==
    /\ \A i \in 1..Len(deny) : deny[i].valid => ~MatchesSomewhere(deny[i].pattern, text)
    /\ \E i \in 1..Len(allow) : allow[i].valid /\ MatchesSomewhere(allow[i].pattern, text)

SomeInvalid(patterns) == \E i \in 1..Len(patterns) : ~patterns[i].valid

VerdictsOfValidPatterns(allow, deny) ==
    /\ \A e \in SafetyExpansions :
          is_safe(classifier, e) <=> SafeByValidPatterns(allow, deny, e)
    /\ \A i \in 1..Len(catalog) :
          catalog[i].safe <=> SafeByValidPatterns(allow, deny, catalog[i].expansion)
    /\ Len(catalog) = Len(aliasFiles["f1"].lines)

\* C23: after the start the classifier exists whatever the configured
\* patterns are, and its verdicts are those of the valid patterns alone
\* (all unsafe when none is valid).
C23_InvalidPatternsDropped ==
    clock = 1 =>
        /\ calls[1].outcome.kind = "payload"
        /\ VerdictsOfValidPatterns(
              config.allow_patterns,
              IF calls[1].outcome.payload.package = "mcp_shell_aliases" THEN <<>>
              ELSE config.deny_patterns)

\* C23, amended: the allow-only package always starts, and its verdicts are
\* those of the valid allow patterns alone (all unsafe when none is valid);
\* the package with deny support starts exactly when every configured
\* pattern is valid and fails with re.error otherwise.
C23_DroppedByAllowOnlyPackage ==
    clock = 1 =>
        LET o == calls[1].outcome
        IN  /\ (o.kind = "payload" /\ o.payload.package = "mcp_shell_aliases") =>
                  /\ VerdictsOfValidPatterns(config.allow_patterns, <<>>)
                  /\ (\A i \in 1..Len(config.allow_patterns) :
                         ~config.allow_patterns[i].valid) =>
                        \A j \in 1..Len(catalog) : ~catalog[j].safe
            /\ (o.kind = "payload" /\ o.payload.package = "mcp_bash_aliases") =>
                  /\ ~SomeInvalid(config.allow_patterns)
                  /\ ~SomeInvalid(config.deny_patterns)
                  /\ VerdictsOfValidPatterns(config.allow_patterns, config.deny_patterns)
            /\ o.kind = "error" =>
                  /\ o = Raised("re.error", "mcp_bash_aliases")
                  /\ SomeInvalid(config.allow_patterns) \/ SomeInvalid(config.deny_patterns)
                  /\ catalog = <<>>

\* the allow-only package started with an invalid pattern before a valid
\* one: "echo hello" is safe by the valid one
C23_Witness ==
    /\ clock = 1
    /\ calls[1].outcome = Returned([package |-> "mcp_shell_aliases"])
    /\ config.allow_patterns = <<InvalidRaw, Raw(Anchored(wordEcho))>>
    /\ classifier.allow_patterns = <<Anchored(wordEcho)>>
    /\ \E i \in 1..Len(catalog) : catalog[i].expansion = expEchoHello /\ catalog[i].safe

(***************************************************************************)
(* Properties of the build over missing files and bad lines (SpecSkip).    *)
(***************************************************************************)
\* the places (file, line number) where the well-formed definition d stands
PlacesOf(d) ==
    {<<f, k>> \in {"f1", "f2"} \X (1..(MaxDefs + 1)) :
        /\ aliasFiles[f].exists
        /\ k <= Len(aliasFiles[f].lines)
        /\ aliasFiles[f].lines[k] = d.line}

DefinedOnce(name) ==
    Cardinality(UNION {PlacesOf(d) : d \in {x \in DefinitionLines : x.name = name}}) = 1

\* C24: the build yields a catalog whatever is missing or malformed: every
\* well-formed definition of an existing file has its name in the catalog,
\* as that definition when the name is defined once; nothing comes from a
\* missing file, a blank line, a comment, a line outside the grammar or a
\* line with an invalid name.
C24_BadLinesAndFilesSkipped ==
    clock = 1 =>
        /\ \A d \in DefinitionLines :
              \A place \in PlacesOf(d) :
                  /\ CatalogGet(catalog, d.name).some
                  /\ DefinedOnce(d.name) =>
                        CatalogGet(catalog, d.name).val
                            = Alias(d.name, d.expansion, d.safe, place[1])
        /\ \A i \in 1..Len(catalog) :
              \E d \in DefinitionLines :
                  /\ catalog[i].name = d.name
                  /\ catalog[i].expansion = d.expansion
                  /\ \E place \in PlacesOf(d) : place[1] = catalog[i].source_file

\* the first file has a line with mismatched quotes, a definition and a
\* comment, the second file is missing: the catalog is that one definition
C24_Witness ==
    /\ clock = 1
    /\ aliasFiles["f1"] = File(<<lineMismatch, lineSafe, lineComment>>)
    /\ ~aliasFiles["f2"].exists
    /\ catalog = <<Alias(nmSafe, expEchoHello, TRUE, "f1")>>

(***************************************************************************)
(* Rebuilding from unchanged files (SpecReload).                           *)
(***************************************************************************)
\* the catalog is what the alias files, as they are now, define
BuiltFromCurrentFiles == catalog = CatalogOfVersion(aliasFiles)

\* C25: a call that rebuilds the catalog from files that still are what the
\* catalog was built from leaves the catalog as it was: same names,
\* expansions, safe flags and source files in the same listing order, which
\* is also what a listing answers.
C25_RebuildOfUnchangedFilesChangesNothing ==
    [][(BuiltFromCurrentFiles /\ (IsListCall(1) \/ IsGetCall(1))) =>
          /\ catalog' = catalog
          /\ IsListCall(1) => calls'[1].outcome.aliases = catalog]_vars

\* a dry run of q and then a listing, both with the files at version 2: the
\* listing's rebuild found the catalog the dry run's rebuild had left
C25_Witness ==
    /\ clock = 2
    /\ config.enable_hot_reload
    /\ aliasFiles = ReloadV2
    /\ Len(auditTrail) = 1
    /\ auditTrail[1].entry.command = bodyRmOtherEsc
    /\ calls[1].outcome = Listed(CatalogOfVersion(ReloadV2))
    /\ catalog = CatalogOfVersion(ReloadV2)

(***************************************************************************)
(* A reload between the lookup and the spawn (SpecRace): task 1 executes   *)
(* an alias for real while task 2 lists the catalog and the files change.  *)
(***************************************************************************)
RaceRequests ==
    {Request(n, NoArgs, FALSE, TRUE, Nothing, Nothing) : n \in {nmSafe, nmQ, nmLl}}

InitRace ==
    \E cfg \in ReloadConfigs, v \in ReloadVersions :
        BuildRuntime(cfg, v, {cmdLs}, BaseEnviron)

NextRace ==
    \/ AliasExec(1, RaceRequests, MaxCalls)
    \/ SpawnOk(1, {1})
    \/ SpawnFails(1)
    \/ ListAliases(2, MaxCalls)
    \/ Respond(2)
    \/ EditAliasFiles(ReloadVersions)

SpecRace == InitRace /\ [][NextRace]_vars

DefinedInSomeVersion(alias) ==
    \E v \in ReloadVersions :
        \E i \in 1..Len(CatalogOfVersion(v)) : CatalogOfVersion(v)[i] = alias

\* C26: from the lookup to the spawn a call holds one Alias record, found
\* under the requested name in one version of the files and safe; no step
\* taken meanwhile, a reload by another call included, changes that record
\* or the command built from its expansion, which is what is spawned.
C26_SpawnedCommandIsOfTheLookedUpAlias ==
    [][\A t \in Tasks :
          calls[t].pc = "spawning" =>
              /\ calls[t].alias.some
              /\ calls[t].alias.val.name = calls[t].req.name
              /\ calls[t].alias.val.safe
              /\ DefinedInSomeVersion(calls[t].alias.val)
              /\ calls[t].command =
                     CommandAsSpecified(calls[t].alias.val.expansion, calls[t].args)
              /\ calls'[t].alias = calls[t].alias
              /\ calls'[t].command = calls[t].command]_vars

\* q was looked up when it was echo "hi"; by the time the process exists the
\* catalog has been rebuilt from version 2 of the files, where q is an rm
C26_Witness ==
    /\ calls[1].pc = "running"
    /\ calls[1].spawned
    /\ calls[1].req.name = nmQ
    /\ calls[1].command = <<"e","c","h","o"," ","\"","h","i","\"">>
    /\ catalog = CatalogOfVersion(ReloadV2)
    /\ ~CatalogGet(catalog, nmQ).val.safe

(***************************************************************************)
(* Refused calls (SpecCall).                                               *)
(***************************************************************************)
\* the five reasons for which alias.exec refuses a request, read off the
\* request, the catalog the lookup reads and the configuration
Unconfirmed(req) == ~req.dry_run /\ ~req.confirm
UnknownAlias(req, cat) == NamedIn(cat, req.name) = {}
UnsafeForReal(req, cat) ==
    ~req.dry_run /\ \E i \in NamedIn(cat, req.name) : ~cat[i].safe
TimeoutOutOfRange(req, cfg) ==
    /\ req.timeout_seconds.some
    /\ \/ req.timeout_seconds.val <= 0
       \/ /\ cfg.execution.default_timeout_seconds >= 1
          /\ req.timeout_seconds.val > 5 * cfg.execution.default_timeout_seconds
       \/ /\ cfg.execution.default_timeout_seconds < 1
          /\ req.timeout_seconds.val > 5
CwdOutsideRoots(req, cfg) ==
    /\ req.cwd.some
    /\ \A root \in CanonicalRoots(cfg) :
          ~EqualOrDescendant(resolve(expanduser(req.cwd.val)), root)

RefusedRequest(req, cat, cfg) ==
    \/ Unconfirmed(req)
    \/ UnknownAlias(req, cat)
    \/ UnsafeForReal(req, cat)
    \/ TimeoutOutOfRange(req, cfg)
    \/ CwdOutsideRoots(req, cfg)

\* C27: an alias.exec call refused for a missing confirmation, an unknown
\* alias, an unsafe alias asked to run for real, a timeout out of range or a
\* directory outside the allow-roots ends at once with a tool error: no
\* process is created and the audit log is what it was, without a line for
\* the call.
C27_RefusedCallLeavesNoTrace ==
    [][\A t \in Tasks :
          (/\ calls[t].pc = "idle"
           /\ calls'[t].pc # "idle"
           /\ RefusedRequest(calls'[t].req, catalog', config)) =>
              /\ calls'[t].pc = "done"
              /\ calls'[t].outcome.kind = "error"
              /\ calls'[t].outcome.type = "ToolError"
              /\ ~calls'[t].spawned
              /\ ~calls'[t].result.some
              /\ calls'[t].logged = 0
              /\ auditLog' = auditLog
              /\ auditTrail' = auditTrail]_vars

\* a confirmed real run of a safe alias, refused only for its directory
C27_Witness ==
    /\ calls[1].pc = "done"
    /\ calls[1].req.name = nmSafe
    /\ ~calls[1].req.dry_run /\ calls[1].req.confirm
    /\ ~TimeoutOutOfRange(calls[1].req, config)
    /\ CwdOutsideRoots(calls[1].req, config)
    /\ calls[1].outcome = Raised("ToolError", "CwdNotAllowedError")
    /\ auditLog = <<>>

(***************************************************************************)
(* The default directory (SpecDefaultCwd): one call under every pairing of *)
(* a default directory, written canonically, through "~", through a        *)
(* symbolic link or relative to the process directory, with the            *)
(* allow-root lists of SpecCwd.                                            *)
(***************************************************************************)
DefaultCwds ==
    {HomePath,
     RelPath(<<segTilde, segOut>>),
     AbsPath(<<segIn>>),
     RelPath(<<segUp>>),
     AbsPath(<<segEtc>>)}

DefaultCwdConfigs ==
    {[BaseConfig EXCEPT !.default_cwd = d, !.allow_cwd_roots = r] :
        d \in DefaultCwds, r \in CwdRootLists}

InitDefaultCwd ==
    \E cfg \in DefaultCwdConfigs :
        BuildRuntime(cfg, FilesV1, {cmdLs}, BaseEnviron)

NextDefaultCwd ==
    \/ AliasExec(1, CwdRequests, 1)
    \/ SpawnOk(1, CwdDurations)
    \/ SpawnFails(1)
    \/ ProcessExit(1, CwdOutputs)
    \/ Timeout(1)
    \/ DrainDone(1, CwdOutputs)

SpecDefaultCwd == InitDefaultCwd /\ [][NextDefaultCwd]_vars

CanonicalDefault(cfg) == resolve(expanduser(cfg.default_cwd))

InsideCanonicalRoot(path, cfg) ==
    \E root \in CanonicalRoots(cfg) : EqualOrDescendant(path, root)

\* C28: the directory a result reports is canonical; without a requested
\* directory it is the canonical form of the default directory, with one it
\* is the canonical form of the requested directory and lies inside a
\* canonicalized allow-root.  A call without a requested directory never
\* fails with CwdNotAllowed, wherever the default directory lies.
C28_DefaultUncheckedRequestedInsideRoot ==
    \A t \in Tasks :
        LET c == calls[t]
        IN  /\ c.result.some =>
                 /\ Canonical(c.result.val.cwd)
                 /\ ~c.req.cwd.some => c.result.val.cwd = CanonicalDefault(config)
                 /\ c.req.cwd.some =>
                       /\ c.result.val.cwd = resolve(expanduser(c.req.cwd.val))
                       /\ InsideCanonicalRoot(c.result.val.cwd, config)
            /\ (c.pc # "idle" /\ ~c.req.cwd.some) =>
                 /\ c.outcome # Raised("ToolError", "CwdNotAllowedError")
                 /\ c.cwd = Some(CanonicalDefault(config))

\* the default directory ~/out is a link to /etc, outside the one root /h:
\* the real run without a requested directory ran in /etc
C28_Witness ==
    /\ calls[1].pc = "done"
    /\ ~calls[1].req.cwd.some
    /\ ~calls[1].req.dry_run
    /\ config.default_cwd = RelPath(<<segTilde, segOut>>)
    /\ ~InsideCanonicalRoot(CanonicalDefault(config), config)
    /\ calls[1].spawned
    /\ calls[1].result.some
    /\ calls[1].result.val.cwd = AbsPath(<<segEtc>>)

(***************************************************************************)
(* The availability-aware builder against the plain one (SpecCatalog).     *)
(***************************************************************************)
AllDefinitions ==
    Flatten([i \in 1..Len(config.alias_files) |->
                _parse_file(config.alias_files[i], classifier)])

EveryHeadAvailable ==
    \A i \in 1..Len(AllDefinitions) : HeadAvailable(AllDefinitions[i].expansion)

\* C29: when the head command of every definition is available on the host,
\* the catalog build_catalog of mcp_shell_aliases produces is the one of the
\* plain builder in which the last definition wins: under each name the
\* last definition's expansion, safe flag and source file, and the same
\* listing.
C29_AllAvailableIsLastWins ==
    (clock = 1 /\ EveryHeadAvailable) =>
        /\ \A name \in {nmLl, nmSafe} :
              LET defs == DefinitionsOf(name)
              IN  IF defs = <<>> THEN CatalogGet(catalog, name) = Nothing
                  ELSE CatalogGet(catalog, name) = Some(defs[Len(defs)])
        /\ catalog = build_catalog_last_wins(config.alias_files, classifier)

\* ls and gls are both installed; ll is ls in the first file and gls in the
\* second, and the catalog has the second
C29_Witness ==
    /\ clock = 1
    /\ hostCommands = {cmdLs, cmdGls}
    /\ EveryHeadAvailable
    /\ aliasFiles["f1"].lines = <<DefLine(nmLl, "'", expLs)>>
    /\ aliasFiles["f2"].lines = <<DefLine(nmLl, "'", expGls)>>
    /\ CatalogGet(catalog, nmLl).val.expansion = expGls
    /\ CatalogGet(catalog, nmLl).val.source_file = "f2"

(***************************************************************************)
(* The verdict as a function of the two lists (SpecSafety).                *)
(***************************************************************************)
\* list with pattern put in at place k
InsertAt(list, k, pattern) ==
    SubSeq(list, 1, k - 1) \o <<pattern>> \o SubSeq(list, k, Len(list))

Reorderings(list) ==
    {[i \in 1..Len(list) |-> list[f[i]]] : f \in Permutations(1..Len(list))}

\* C30: for the classifier in use and every expansion, one more allow
\* pattern, wherever it is put in the list, never makes a safe expansion
\* unsafe; one more deny pattern never makes an unsafe expansion safe; and
\* the verdict is the same under every reordering of either list.
C30_VerdictMonotoneAndOrderFree ==
    \A e \in SafetyExpansions :
        LET allow == classifier.allow_patterns
            deny == classifier.deny_patterns
            verdict == is_safe(classifier, e)
        IN  /\ \A p \in SafetyPatterns :
                  /\ \A k \in 1..(Len(allow) + 1) :
                        verdict => is_safe(from_strings(InsertAt(allow, k, p), deny), e)
                  /\ \A k \in 1..(Len(deny) + 1) :
                        ~verdict => ~is_safe(from_strings(allow, InsertAt(deny, k, p)), e)
            /\ \A al \in Reorderings(allow), dl \in Reorderings(deny) :
                  is_safe(from_strings(al, dl), e) <=> verdict

\* a listed catalog under two different allow patterns of which only the
\* second matches "echo rm", and no deny pattern: the entry is safe, the
\* deny pattern rm would make it unsafe and the allow list has two orders
C30_Witness ==
    /\ calls[1].outcome.kind = "aliases"
    /\ classifier.allow_patterns = <<Anchored(wordRm), Anchored(wordEcho)>>
    /\ classifier.deny_patterns = <<>>
    /\ \E i \in 1..Len(catalog) : catalog[i].expansion = expEchoRm /\ catalog[i].safe
    /\ is_safe(classifier, expEchoRm)
    /\ ~is_safe(from_strings(classifier.allow_patterns, <<Anywhere(wordRm)>>), expEchoRm)
    /\ Reorderings(classifier.allow_patterns) # {classifier.allow_patterns}

====
